---- MODULE Spec2Model ----
(***************************************************************************)
(* A model of the AggTradesTool streaming aggregation core:                *)
(*   - the memory arbiter            (internal/memory/manager.go)          *)
(*   - the rolling percentile window (internal/whale/percentile.go)        *)
(*   - the reservoir and detector    (package whale)                       *)
(*   - the checkpoint store          (internal/state)                      *)
(*   - the pipeline scheduler        (package pipeline)                    *)
(* Byte amounts are counted in GiB.  Dates, hours and months are numbered  *)
(* chronologically; the ISO strings of the program order the same way.     *)
(***************************************************************************)
EXTENDS Integers, Sequences, FiniteSets, TLC

(***************************************************************************)
(* Bounds of the model.                                                    *)
(***************************************************************************)
NumTasks == 2      \* concurrent callers of the arbiter
MaxBudget == 2     \* largest maxBytes - minFreeBytes, and largest request, tried

windowDays == 1    \* RollingPercentile.windowDays (7 in the program)
samplesPerDay == 1 \* reservoir capacity (10,000 in the program)
bootstrapSampleCount == 2  \* samples buffered for the bootstrap (50,000)
NumDates == 3      \* dates a sample can carry in the window model
MaxSamples == 3    \* AddSample calls in the window model

NumMonths == 2     \* months the run is asked for (cfg.GenerateMonths)
MaxWorkers == 2    \* largest cfg.DownloadWorkers tried (3 by default in the program)
MaxFaults == 1     \* crashes, failed downloads and failed writes injected in all
DaysPerMonth == 2  \* days in a month
HoursPerDay == 1   \* hours in a day
MaxTrades == 3     \* trades in one monthly file
batchSize == 2     \* trades ParseCSV hands over at a time (10,000 in the program)
WorkerChanCap == 3 \* capacity of ui.WorkerChan (100 in the program)
MantissaBits == 10 \* significand bits of a float64 (53 in the program)
MaxBarTrades == 3  \* AddTrade calls on one bar
MaxClassified == 2 \* classified trades added to one bar
Capacity == 2      \* capacity of the reservoirs in the reservoir model
MaxSeen == 4       \* items one reservoir has seen in the reservoir model
RngRange == 4      \* values one draw of the generator can take
MaxSorted == 4     \* length of the slices percentile is applied to
MaxLines == 4      \* lines in a CSV file given to the parser on its own

(***************************************************************************)
(* Program constants.                                                      *)
(***************************************************************************)
minFreeBytes == 1  \* 1 GiB safety margin
currentVersion == 1    \* version written to and expected in state.json
maxRetries == 3        \* downloader.maxRetries
DefaultP99 == 5000     \* DefaultThresholds().P99  = 5.0, in thousandths
DefaultP999 == 20000   \* DefaultThresholds().P999 = 20.0, in thousandths
P99 == 990             \* percentile 99,   in thousandths of the rank range
P999 == 999            \* percentile 99.9, in thousandths of the rank range

Tasks == 1..NumTasks
Months == 1..NumMonths

VARIABLES
    maxBytes,        \* Manager.maxBytes
    reservedBytes,   \* Manager.reservedBytes (atomic.Int64)
    waiters,         \* Manager.waiters: FIFO of waiter channels, named by owner
    waiterChan,      \* per task: tokens in its waiter channel (capacity 1)
    stopChan,        \* Manager.stopChan: "open" or "closed"
    task,            \* per task: position inside TryReserve/Reserve/Release
    rngSeed,         \* what rand.NewSource(42) yields: rngSeed, rngSeed + 1, ...
    detector,        \* whale.Detector with its RollingPercentile
    archive,         \* per month, the trades of its CSV file on the data server
    downloadWorkers, \* cfg.DownloadWorkers
    disk,            \* the checkpoint directory and the local CSV files
    pipeline,        \* pipeline.Pipeline: state, monthOrder, channels, Run's result
    dispatcher,      \* the dispatcher goroutine: its locals and its position
    aggregator,      \* aggregator.Aggregator: pendingBars, finalizedBars
    hist             \* history: process phase, faults injected, months folded/started/...

arbVars == <<maxBytes, reservedBytes, waiters, waiterChan, stopChan, task>>

detVars == <<rngSeed, detector>>

pipeVars == <<archive, downloadWorkers, disk, pipeline, dispatcher, aggregator, hist>>

vars == <<maxBytes, reservedBytes, waiters, waiterChan, stopChan, task,
          rngSeed, detector,
          archive, downloadWorkers, disk, pipeline, dispatcher, aggregator, hist>>

(***************************************************************************)
(* The pipeline's records as NewPipeline leaves them, and an empty disk.   *)
(* An absent file, or a nil pointer, is <<>>; a present one is <<data>>.   *)
(***************************************************************************)
EmptyDisk ==
    [stateJson    |-> <<>>,                     \* checkpoint/state.json
     detectorJson |-> <<>>,                     \* checkpoint/detector.json
     bars         |-> [m \in Months |-> <<>>],  \* checkpoint/bars/<month>.json
     csv          |-> {},                       \* months whose CSV is on the local disk
     barsTmp      |-> <<>>,                     \* checkpoint/bars/<month>.json.tmp
     detectorTmp  |-> <<>>,                     \* checkpoint/detector.json.tmp
     stateTmp     |-> <<>>,                     \* checkpoint/state.json.tmp
     \* the files whose bytes json.Unmarshal rejects
     unparseable  |-> [stateJson |-> FALSE, bars |-> {}]]

NewPipeline ==
    [state              |-> [CompletedMonths |-> <<>>],
     monthOrder         |-> <<>>,
     downloadQueue      |-> <<>>,
     downloading        |-> {},      \* months a download worker is busy with
     processQueue       |-> <<>>,
     processQueueClosed |-> FALSE,
     failedMonths       |-> <<>>,
     result             |-> <<>>,
     uiEnabled          |-> TRUE,    \* p.ui.enabled: the UI's updateLoop is running
     workerChan         |-> 0,       \* updates waiting in p.ui.WorkerChan
     ctxDone            |-> FALSE,   \* p.cancel() has been called
     exited             |-> 0,       \* download workers that returned on ctx.Done()
     \* DownloadWithRetry of each month: its place in the loop, attempt and
     \* delay (in seconds), and the delays it has waited for
     retry              |-> [m \in Months |->
                               [pc |-> "loop", attempt |-> 0, delay |-> 1, waited |-> <<>>]],
     stop               |-> [pc |-> "idle", data |-> <<>>]]  \* the caller of Stop

NewDispatcher ==
    [pc                 |-> "idle",
     readyJobs          |-> {},
     failedSet          |-> {},
     nextMonthIdx       |-> 0,
     processQueueClosed |-> FALSE,
     job                |-> 0,       \* the month processMonth is working on
     bars               |-> <<>>]    \* saveCheckpoint's local bars

NewAggregator == [pendingBars |-> <<>>, finalizedBars |-> <<>>]

\* History of the current process: nothing folded, started, finished or failed.
\*   phase       "down" (not running), "running", "done" (Run has returned)
\*   faults      faults injected so far, over all processes
\*   folded      months whose trades have been added to the in-memory detector
\*   started     months handed to processMonthSequential, in order
\*   finished    months whose processMonthSequential has returned
\*   writeFailed months with a failed checkpoint write in this process
\*   listed      months the state.json loaded at start-up listed as completed
\*   fed         trades handed to the aggregator and not yet taken out of it
\*               by GetBarsForMonth: their number, per hour
NewHist(faults) ==
    [phase |-> "down", faults |-> faults, folded |-> {}, started |-> <<>>,
     finished |-> {}, writeFailed |-> {}, listed |-> {}, fed |-> <<>>]

\* the pipeline is not in use
PipelineUnused ==
    /\ archive = [m \in Months |-> <<>>]
    /\ downloadWorkers = 1
    /\ disk = EmptyDisk
    /\ pipeline = NewPipeline
    /\ dispatcher = NewDispatcher
    /\ aggregator = NewAggregator
    /\ hist = NewHist(0)

(***************************************************************************)
(* Reservoir, rolling percentile window and whale detector.                *)
(* Quantities are whole numbers; thresholds are kept in thousandths, so    *)
(* the linear interpolation of percentile() is exact.                      *)
(***************************************************************************)
Dates == 1..NumDates
Qtys == {1, 100, 101}
WindowQtys == {1, 100}

\* sort.Float64s / sort.Strings: ascending order.
RECURSIVE Insert(_, _)
Insert(sorted, v) ==
    IF sorted = <<>> THEN <<v>>
    ELSE IF v <= Head(sorted) THEN <<v>> \o sorted
    ELSE <<Head(sorted)>> \o Insert(Tail(sorted), v)

RECURSIVE Sort(_)
Sort(xs) == IF xs = <<>> THEN <<>> ELSE Insert(Sort(Tail(xs)), Head(xs))

\* r.rng.Int63n(n) for the i-th draw (i counted from 0) of a generator
\* seeded with 42: a fixed stream, the same for every generator.
Int63n(i, n) == (rngSeed + i) % n

\* r.rng.Intn(n) and r.rng.Float64() < num / den for the i-th draw
Intn(i, n) == (rngSeed + i) % n
Float64Less(i, num, den) == ((rngSeed + i) % RngRange) * den < num * RngRange

\* NewReservoir(capacity): empty, generator at the start of its stream.
NewReservoir(capacity) ==
    [samples |-> <<>>, capacity |-> capacity, count |-> 0, draws |-> 0]

\* NewReservoirFromSamples(capacity, samples, count): a new generator.
NewReservoirFromSamples(capacity, samples, count) ==
    [samples |-> samples, capacity |-> capacity, count |-> count, draws |-> 0]

\* Reservoir.ExportState()
ExportState(r) == [Samples |-> r.samples, Count |-> r.count]

\* Reservoir.Add(value)
ReservoirAdd(r, value) ==
    LET count == r.count + 1 IN
    IF Len(r.samples) < r.capacity
    THEN [r EXCEPT !.count = count, !.samples = Append(r.samples, value)]
    ELSE LET j == Int63n(r.draws, count) IN
         [r EXCEPT !.count = count,
                   !.draws = r.draws + 1,
                   !.samples = IF j < r.capacity
                               THEN [r.samples EXCEPT ![j + 1] = value]
                               ELSE r.samples]

\* the loop of Reservoir.Merge over otherSamples
RECURSIVE MergeSamples(_, _, _, _)
MergeSamples(r, otherSamples, otherCount, totalCount) ==
    IF otherSamples = <<>> THEN r
    ELSE LET val == Head(otherSamples)
             drawn == [r EXCEPT !.draws = @ + 1]
             merged ==
                 IF ~Float64Less(r.draws, otherCount, totalCount) THEN drawn
                 ELSE IF Len(r.samples) < r.capacity
                      THEN [drawn EXCEPT !.samples = Append(@, val)]
                      ELSE [drawn EXCEPT
                              !.samples[Intn(drawn.draws, r.capacity) + 1] = val,
                              !.draws = @ + 1]
         IN MergeSamples(merged, Tail(otherSamples), otherCount, totalCount)

\* Reservoir.Merge(other)
ReservoirMerge(r, other) ==
    IF Len(other.samples) = 0 THEN r
    ELSE [MergeSamples(r, other.samples, other.count, r.count + other.count)
             EXCEPT !.count = r.count + other.count]

\* Thresholds{P99, P999}
Thresholds(p99, p999) == [P99 |-> p99, P999 |-> p999]
DefaultThresholds == Thresholds(DefaultP99, DefaultP999)

\* percentile without the interpolation: the element at the lower rank
percentileLower(sorted, p) ==
    IF Len(sorted) = 0 THEN 0
    ELSE LET lower == (p * (Len(sorted) - 1)) \div 1000
         IN IF lower + 1 >= Len(sorted) THEN 1000 * sorted[Len(sorted)]
            ELSE 1000 * sorted[lower + 1]

\* percentile(sorted, p), p in thousandths of 100 percent; the result in
\* thousandths.  rank := p/100 * (len-1); lower := int(rank).
percentile(sorted, p) ==
    IF Len(sorted) = 0 THEN 0
    ELSE LET rank  == p * (Len(sorted) - 1)
             lower == rank \div 1000
             upper == lower + 1
             frac  == rank % 1000
         IN IF upper >= Len(sorted)
            THEN 1000 * sorted[Len(sorted)]
            ELSE 1000 * sorted[lower + 1]
                   + frac * (sorted[upper + 1] - sorted[lower + 1])

\* NewDetector / NewRollingPercentile
NewDetector ==
    [dailySamples        |-> <<>>,
     dateOrder           |-> <<>>,
     bootstrapBuffer     |-> <<>>,
     bootstrapThresholds |-> Thresholds(0, 0),
     bootstrapped        |-> FALSE,
     thresholdCache      |-> <<>>]

\* RollingPercentile.computeBootstrapThresholds
computeBootstrapThresholds(rp) ==
    LET sorted == Sort(rp.bootstrapBuffer) IN
    [rp EXCEPT !.bootstrapThresholds =
                    Thresholds(percentile(sorted, P99), percentile(sorted, P999)),
               !.bootstrapped = TRUE,
               !.bootstrapBuffer = <<>>]

\* RollingPercentile.AddSample(date, qty)
RollingAddSample(rp, date, qty) ==
    LET buffered == [rp EXCEPT !.bootstrapBuffer = Append(rp.bootstrapBuffer, qty)]
        rp1 == IF rp.bootstrapped THEN rp
               ELSE IF Len(buffered.bootstrapBuffer) >= bootstrapSampleCount
                    THEN computeBootstrapThresholds(buffered)
                    ELSE buffered
        exists == date \in DOMAIN rp1.dailySamples
        reservoir == IF exists THEN rp1.dailySamples[date] ELSE NewReservoir(samplesPerDay)
        dateOrder == IF exists THEN rp1.dateOrder
                     ELSE Sort(Append(rp1.dateOrder, date))
    IN [rp1 EXCEPT
          !.dailySamples = [d \in (DOMAIN rp1.dailySamples) \cup {date} |->
                               IF d = date THEN ReservoirAdd(reservoir, qty)
                               ELSE rp1.dailySamples[d]],
          !.dateOrder = dateOrder]

\* for _, d := range rp.dateOrder { if d >= date { break }; append }
RECURSIVE DatesAtOrBefore(_, _)
DatesAtOrBefore(order, date) ==
    IF order = <<>> \/ Head(order) > date THEN <<>>
    ELSE <<Head(order)>> \o DatesAtOrBefore(Tail(order), date)

RECURSIVE DatesBefore(_, _)
DatesBefore(order, date) ==
    IF order = <<>> \/ Head(order) >= date THEN <<>>
    ELSE <<Head(order)>> \o DatesBefore(Tail(order), date)

\* the first n dates taken instead of the last n
FirstN(xs, n) == IF Len(xs) > n THEN SubSeq(xs, 1, n) ELSE xs

\* windowDates[len(windowDates)-rp.windowDays:]
LastN(xs, n) == IF Len(xs) > n THEN SubSeq(xs, Len(xs) - n + 1, Len(xs)) ELSE xs

RECURSIVE CollectSamples(_, _)
CollectSamples(rp, dates) ==
    IF dates = <<>> THEN <<>>
    ELSE (IF Head(dates) \in DOMAIN rp.dailySamples
          THEN rp.dailySamples[Head(dates)].samples ELSE <<>>)
         \o CollectSamples(rp, Tail(dates))

\* RollingPercentile.GetThresholds(date)
RollingGetThresholds(rp, date) ==
    LET windowDates == LastN(DatesBefore(rp.dateOrder, date), windowDays)
        fallback == IF rp.bootstrapped THEN rp.bootstrapThresholds
                    ELSE DefaultThresholds
        allSamples == CollectSamples(rp, windowDates)
    IN IF Len(windowDates) = 0 THEN fallback
       ELSE IF Len(allSamples) = 0 THEN fallback
       ELSE LET sorted == Sort(allSamples)
            IN Thresholds(percentile(sorted, P99), percentile(sorted, P999))

\* Detector.AddSample(date, qty): add, then drop the date's cached thresholds.
DetectorAddSample(d, date, qty) ==
    LET rp == RollingAddSample(d, date, qty) IN
    [rp EXCEPT !.thresholdCache =
        [x \in (DOMAIN rp.thresholdCache) \ {date} |-> rp.thresholdCache[x]]]

\* Detector.GetThresholds(date): the value returned ...
DetectorThresholds(d, date) ==
    IF date \in DOMAIN d.thresholdCache THEN d.thresholdCache[date]
    ELSE RollingGetThresholds(d, date)

\* ... and the detector afterwards (the value is cached).
DetectorGetThresholds(d, date) ==
    [d EXCEPT !.thresholdCache =
        [x \in (DOMAIN d.thresholdCache) \cup {date} |->
            IF x = date THEN DetectorThresholds(d, date) ELSE d.thresholdCache[x]]]

\* RollingPercentile.PruneOldDates(currentDate): the cutoff index, from
\* index i (counted from 0) on
RECURSIVE Cutoff(_, _, _)
Cutoff(dateOrder, currentDate, i) ==
    IF i >= Len(dateOrder) THEN i
    ELSE IF dateOrder[i + 1] >= currentDate THEN i
    ELSE IF Len(dateOrder) - i <= windowDays + 1 THEN i
    ELSE Cutoff(dateOrder, currentDate, i + 1)

RollingPruneOldDates(rp, currentDate) ==
    LET cutoff == Cutoff(rp.dateOrder, currentDate, 0)
        removed == {rp.dateOrder[i] : i \in 1..cutoff}
    IN [rp EXCEPT
          !.dailySamples = [d \in (DOMAIN rp.dailySamples) \ removed |-> rp.dailySamples[d]],
          !.dateOrder = SubSeq(rp.dateOrder, cutoff + 1, Len(rp.dateOrder))]

\* Detector.PruneOldDates(currentDate): prune, then drop the cached
\* thresholds of earlier dates.
DetectorPruneOldDates(d, currentDate) ==
    LET rp == RollingPruneOldDates(d, currentDate) IN
    [rp EXCEPT !.thresholdCache =
        [x \in {y \in DOMAIN rp.thresholdCache : y >= currentDate} |->
            rp.thresholdCache[x]]]

\* Classify with the two thresholds taken for each other
ClassifySwapped(d, date, qty) ==
    LET t == DetectorThresholds(d, date)
    IN [IsWhaleP99 |-> 1000 * qty >= t.P999, IsWhaleP999 |-> 1000 * qty >= t.P99]

\* Detector.Classify(trade): trade.Qty >= thresholds.P99 / .P999
Classify(d, date, qty) ==
    LET t == DetectorThresholds(d, date)
    IN [IsWhaleP99 |-> 1000 * qty >= t.P99, IsWhaleP999 |-> 1000 * qty >= t.P999]

(***************************************************************************)
(* The window model: any samples, any dates, any arrival order.            *)
(***************************************************************************)
\* samples added so far: the sum of the reservoirs' counts
RECURSIVE TotalCount(_, _)
TotalCount(rp, dates) ==
    IF dates = <<>> THEN 0
    ELSE rp.dailySamples[Head(dates)].count + TotalCount(rp, Tail(dates))

DetectorInit ==
    /\ rngSeed \in 0..samplesPerDay
    /\ detector = NewDetector

\* the detector is not in use
DetectorUnused ==
    /\ rngSeed = 0
    /\ detector = NewDetector

AddSample(date, qty) ==
    /\ TotalCount(detector, detector.dateOrder) < MaxSamples
    /\ detector' = DetectorAddSample(detector, date, qty)
    /\ UNCHANGED rngSeed
    /\ UNCHANGED <<arbVars, pipeVars>>

GetThresholds(date) ==
    /\ detector' = DetectorGetThresholds(detector, date)
    /\ UNCHANGED rngSeed
    /\ UNCHANGED <<arbVars, pipeVars>>

ArbiterUnused ==
    /\ maxBytes = minFreeBytes
    /\ reservedBytes = 0
    /\ waiters = <<>>
    /\ waiterChan = [t \in Tasks |-> 0]
    /\ stopChan = "open"
    /\ task = [t \in Tasks |-> [pc |-> "idle"]]

WindowNext ==
    \/ \E date \in Dates, qty \in WindowQtys : AddSample(date, qty)
    \/ \E date \in Dates : GetThresholds(date)

WindowInit == DetectorInit /\ ArbiterUnused /\ PipelineUnused

(***************************************************************************)
(* The CSV parser on its own, line by line.  A file is a sequence of lines;*)
(* a line is a trade record, a header, a record with too few columns, a    *)
(* record with an unparseable number, or blank; nl tells whether the line  *)
(* ends with a newline (only the last line of a file may lack it).  A trade*)
(* is identified by the number of its line.                                *)
(***************************************************************************)
LineKinds == {"trade", "header", "short", "badnum", "blank"}

CsvFiles ==
    UNION {{lines \in [1..n -> [kind : LineKinds, nl : BOOLEAN]] :
               \A i \in 1..(n - 1) : lines[i].nl} : n \in 0..MaxLines}

\* parseLine accepting every line
parseLineAny(line) == TRUE

\* parseLine(line): TRUE when it returns a Trade and no error
parseLine(line) == line.kind = "trade"

\* isHeaderLine(line): the header, or a first field that is not a number
isHeaderLine(line) == line.kind \in {"header", "blank"}

\* reader.ReadString('\n'), the r-th call: the line read (0 when no byte
\* was read) and the error.  The failAt-th call fails with an I/O error.
ReadString(lines, r, failAt) ==
    IF r = failAt THEN [line |-> 0, err |-> "io"]
    ELSE IF r > Len(lines) THEN [line |-> 0, err |-> "EOF"]
    ELSE [line |-> r, err |-> IF lines[r].nl THEN "nil" ELSE "EOF"]

\* ParseCSV, the loop after the first line, from the r-th read on, and the
\* remaining trades yielded after it; the callback records its batches.
RECURSIVE ParseLoop(_, _, _, _, _, _)
ParseLoop(lines, r, failAt, batch, totalTrades, batches) ==
    LET rd       == ReadString(lines, r, failAt)
        parsed   == IF rd.line = 0 THEN FALSE
                    ELSE IF lines[rd.line].kind = "blank" THEN FALSE
                    ELSE parseLine(lines[rd.line])
        appended == IF parsed THEN Append(batch, rd.line) ELSE batch
        total    == IF parsed THEN totalTrades + 1 ELSE totalTrades
        full     == parsed /\ Len(appended) >= batchSize
        yielded  == IF full THEN Append(batches, appended) ELSE batches
        kept     == IF full THEN <<>> ELSE appended
    IN IF rd.err # "nil"
       THEN [batches     |-> IF Len(kept) > 0 THEN Append(yielded, kept) ELSE yielded,
             totalTrades |-> total,
             err         |-> "nil"]
       ELSE ParseLoop(lines, r + 1, failAt, kept, total, yielded)

\* ParseCSV(csvPath, callback) on a file: the batches handed to the
\* callback, the count returned and the error returned
ParseLines(lines, openFails, failAt) ==
    IF openFails THEN [batches |-> <<>>, totalTrades |-> 0, err |-> "open file"]
    ELSE LET rd == ReadString(lines, 1, failAt)
         IN IF rd.err # "nil"
            THEN [batches |-> <<>>, totalTrades |-> 0, err |-> "read first line"]
            ELSE IF (~isHeaderLine(lines[1])) /\ parseLine(lines[1])
            THEN ParseLoop(lines, 2, failAt, <<1>>, 1, <<>>)
            ELSE ParseLoop(lines, 2, failAt, <<>>, 0, <<>>)

\* the ReadString calls ParseCSV makes on a file when none fails
NumReads(lines) ==
    IF Len(lines) = 0 THEN 1
    ELSE IF lines[Len(lines)].nl THEN Len(lines) + 1 ELSE Len(lines)

TheFile == archive[1]

\* processMonth(job) up to the checkpoint: ParseCSV; on an error it returns
\* the error, else it removes the CSV file and saves the checkpoint.
\* os.Open fails (openFails) or the failAt-th read fails, or neither.
ParseMonth(openFails, failAt) ==
    /\ dispatcher.pc = "parse"
    /\ openFails => failAt = 0
    /\ failAt <= NumReads(TheFile)
    /\ LET r == ParseLines(TheFile, openFails, failAt)
       IN dispatcher' = [dispatcher EXCEPT
                            !.pc = IF r.err # "nil" THEN "release" ELSE "remove_csv",
                            !.parsed = r,
                            !.openFails = openFails,
                            !.failAt = failAt]
    /\ UNCHANGED <<archive, downloadWorkers, disk, pipeline, aggregator, hist>>
    /\ UNCHANGED <<arbVars, detVars>>

ParseInit ==
    /\ ArbiterUnused
    /\ DetectorUnused
    /\ archive \in {[m \in Months |-> IF m = 1 THEN lines ELSE <<>>] : lines \in CsvFiles}
    /\ downloadWorkers = 1
    /\ disk = [EmptyDisk EXCEPT !.csv = {1}]
    /\ pipeline = NewPipeline
    /\ dispatcher = [pc |-> "parse", job |-> 1, openFails |-> FALSE, failAt |-> 0,
                     parsed |-> [batches |-> <<>>, totalTrades |-> 0, err |-> "nil"]]
    /\ aggregator = NewAggregator
    /\ hist = NewHist(0)

ParseNext == \E openFails \in BOOLEAN, failAt \in 0..(MaxLines + 1) : ParseMonth(openFails, failAt)

SpecParse == ParseInit /\ [][ParseNext]_vars

\* percentile on its own: any values are buffered, and the percentiles p
\* and q of the sorted copy are taken as computeBootstrapThresholds takes
\* the percentiles 99 and 99.9.
Percents == {0, 250, 500, P99, P999, 1000}

Slices == UNION {[1..n -> 1..MaxSorted] : n \in 1..MaxSorted}

PercentilesTaken(p, q) ==
    /\ detector' = [detector EXCEPT !.bootstrapThresholds =
                       Thresholds(percentile(Sort(detector.bootstrapBuffer), p),
                                  percentile(Sort(detector.bootstrapBuffer), q))]
    /\ UNCHANGED rngSeed
    /\ UNCHANGED <<arbVars, pipeVars>>

PercentileInit ==
    /\ ArbiterUnused
    /\ PipelineUnused
    /\ rngSeed = 0
    /\ detector \in {[NewDetector EXCEPT !.bootstrapBuffer = values] : values \in Slices}

PercentileNext == \E p \in Percents, q \in Percents : PercentilesTaken(p, q)

SpecPercentile == PercentileInit /\ [][PercentileNext]_vars

PruneOldDates(currentDate) ==
    /\ detector' = DetectorPruneOldDates(detector, currentDate)
    /\ UNCHANGED rngSeed
    /\ UNCHANGED <<arbVars, pipeVars>>

PruneNext ==
    \/ WindowNext
    \/ \E currentDate \in Dates : PruneOldDates(currentDate)

SpecPrune == WindowInit /\ [][PruneNext]_vars

SpecWindow == WindowInit /\ [][WindowNext]_vars

(***************************************************************************)
(* Memory arbiter.                                                         *)
(***************************************************************************)

\* available := m.maxBytes - current - m.minFreeBytes
AvailableNoMargin(current) == maxBytes - current
Available(current) == maxBytes - current - minFreeBytes

\* atomic.Int64.CompareAndSwap(old, new) applied to the cell value cur
BlindStore(cur, old, new) == [swapped |-> TRUE, value |-> new]
CompareAndSwap(cur, old, new) ==
    IF cur = old THEN [swapped |-> TRUE, value |-> new]
                 ELSE [swapped |-> FALSE, value |-> cur]

\* A caller that is not inside any arbiter call and holds nothing.
\*   bytes       the argument of the call in progress
\*   current     TryReserve's local copy of reservedBytes
\*   mode        which TryReserve call this is: "try" (a direct call),
\*               "fast" (Reserve's fast path), "retry" (Reserve after a wake-up)
\*   ret         what the last call handed back to the caller
\*   believes    what the caller goes on to release
\*   outstanding bytes this caller really added to reservedBytes (history)
\*   wake        the waiter Release popped and is about to signal
TaskIdle ==
    [pc |-> "idle", mode |-> "none", bytes |-> 0, current |-> 0,
     ret |-> "none", believes |-> 0, outstanding |-> 0, wake |-> 0]

NewManager ==
    /\ maxBytes \in {minFreeBytes + b : b \in 1..MaxBudget}
    /\ reservedBytes = 0
    /\ waiters = <<>>
    /\ waiterChan = [t \in Tasks |-> 0]
    /\ stopChan = "open"
    /\ task = [t \in Tasks |-> TaskIdle]
    /\ DetectorUnused
    /\ PipelineUnused

\* The caller invokes TryReserve(n).
CallTryReserve(t, n) ==
    /\ task[t].pc = "idle"
    /\ task' = [task EXCEPT ![t] = [@ EXCEPT !.pc = "try_load", !.mode = "try",
                                              !.bytes = n, !.ret = "none"]]
    /\ UNCHANGED <<maxBytes, reservedBytes, waiters, waiterChan, stopChan>>
    /\ UNCHANGED <<detVars, pipeVars>>

\* The caller invokes Reserve(n); it starts with the fast path.
CallReserve(t, n) ==
    /\ task[t].pc = "idle"
    /\ task' = [task EXCEPT ![t] = [@ EXCEPT !.pc = "try_load", !.mode = "fast",
                                              !.bytes = n, !.ret = "none"]]
    /\ UNCHANGED <<maxBytes, reservedBytes, waiters, waiterChan, stopChan>>
    /\ UNCHANGED <<detVars, pipeVars>>

\* current := m.reservedBytes.Load()
TryReserveLoad(t) ==
    /\ task[t].pc = "try_load"
    /\ task' = [task EXCEPT ![t] = [@ EXCEPT !.pc = "try_check",
                                              !.current = reservedBytes]]
    /\ UNCHANGED <<maxBytes, reservedBytes, waiters, waiterChan, stopChan>>
    /\ UNCHANGED <<detVars, pipeVars>>

\* if available < bytes { return false }
TryReserveCheck(t) ==
    /\ task[t].pc = "try_check"
    /\ IF Available(task[t].current) < task[t].bytes
       THEN task' = [task EXCEPT ![t] =
                CASE @.mode = "try"   -> [TaskIdle EXCEPT !.ret = "false"]
                  [] @.mode = "fast"  -> [@ EXCEPT !.pc = "enqueue"]
                  [] OTHER            -> [@ EXCEPT !.pc = "requeue"]]
       ELSE task' = [task EXCEPT ![t] = [@ EXCEPT !.pc = "try_cas"]]
    /\ UNCHANGED <<maxBytes, reservedBytes, waiters, waiterChan, stopChan>>
    /\ UNCHANGED <<detVars, pipeVars>>

\* if m.reservedBytes.CompareAndSwap(current, current+bytes) { return true }
\* On success TryReserve returns true; inside Reserve, Reserve then returns
\* (it has no result value).
TryReserveCAS(t) ==
    /\ task[t].pc = "try_cas"
    /\ LET r == CompareAndSwap(reservedBytes, task[t].current,
                               task[t].current + task[t].bytes)
       IN /\ reservedBytes' = r.value
          /\ IF r.swapped
             THEN task' = [task EXCEPT ![t] =
                     [TaskIdle EXCEPT !.pc = "holding",
                               !.ret = IF task[t].mode = "try" THEN "true" ELSE "returned",
                               !.bytes = task[t].bytes,
                               !.believes = task[t].bytes,
                               !.outstanding = task[t].bytes]]
             ELSE task' = [task EXCEPT ![t] = [@ EXCEPT !.pc = "try_load"]]
    /\ UNCHANGED <<maxBytes, waiters, waiterChan, stopChan>>
    /\ UNCHANGED <<detVars, pipeVars>>

\* m.waiters = append(m.waiters, waiter), under m.mu: on entering the slow
\* path and again after a failed re-attempt.
ReserveEnqueue(t) ==
    /\ task[t].pc \in {"enqueue", "requeue"}
    /\ waiters' = Append(waiters, t)
    /\ task' = [task EXCEPT ![t] = [@ EXCEPT !.pc = "select"]]
    /\ UNCHANGED <<maxBytes, reservedBytes, waiterChan, stopChan>>
    /\ UNCHANGED <<detVars, pipeVars>>

\* select { case <-waiter: ... TryReserve again
ReserveWoken(t) ==
    /\ task[t].pc = "select"
    /\ waiterChan[t] > 0
    /\ waiterChan' = [waiterChan EXCEPT ![t] = 0]
    /\ task' = [task EXCEPT ![t] = [@ EXCEPT !.pc = "try_load", !.mode = "retry"]]
    /\ UNCHANGED <<maxBytes, reservedBytes, waiters, stopChan>>
    /\ UNCHANGED <<detVars, pipeVars>>

\* select { ... case <-m.stopChan: return }
\* Reserve returns nothing, so the caller sees the same return as after a
\* successful reservation and carries on (dispatcher: Reserve, then process,
\* then the deferred Release of the same amount).
ReserveStopped(t) ==
    /\ task[t].pc = "select"
    /\ stopChan = "closed"
    /\ task' = [task EXCEPT ![t] = [TaskIdle EXCEPT !.pc = "holding", !.ret = "returned",
                                                     !.bytes = task[t].bytes,
                                                     !.believes = task[t].bytes]]
    /\ UNCHANGED <<maxBytes, reservedBytes, waiters, waiterChan, stopChan>>
    /\ UNCHANGED <<detVars, pipeVars>>

\* The caller invokes Release with the amount it reserved.
CallRelease(t) ==
    /\ task[t].pc = "holding"
    /\ task' = [task EXCEPT ![t] = [@ EXCEPT !.pc = "rel_add"]]
    /\ UNCHANGED <<maxBytes, reservedBytes, waiters, waiterChan, stopChan>>
    /\ UNCHANGED <<detVars, pipeVars>>

\* m.reservedBytes.Add(-bytes)
ReleaseAdd(t) ==
    /\ task[t].pc = "rel_add"
    /\ reservedBytes' = reservedBytes - task[t].believes
    /\ task' = [task EXCEPT ![t] = [@ EXCEPT !.pc = "rel_pop", !.outstanding = 0]]
    /\ UNCHANGED <<maxBytes, waiters, waiterChan, stopChan>>
    /\ UNCHANGED <<detVars, pipeVars>>

\* under m.mu: if len(m.waiters) > 0 { waiter := m.waiters[0]; m.waiters = m.waiters[1:] }
ReleasePop(t) ==
    /\ task[t].pc = "rel_pop"
    /\ IF Len(waiters) > 0
       THEN /\ waiters' = Tail(waiters)
            /\ task' = [task EXCEPT ![t] = [@ EXCEPT !.pc = "rel_send",
                                                      !.wake = Head(waiters)]]
       ELSE /\ waiters' = waiters
            /\ task' = [task EXCEPT ![t] = TaskIdle]
    /\ UNCHANGED <<maxBytes, reservedBytes, waiterChan, stopChan>>
    /\ UNCHANGED <<detVars, pipeVars>>

\* select { case waiter <- struct{}{}: default: }   (capacity 1, never blocks)
ReleaseSend(t) ==
    /\ task[t].pc = "rel_send"
    /\ waiterChan' = [waiterChan EXCEPT ![task[t].wake] = 1]
    /\ task' = [task EXCEPT ![t] = TaskIdle]
    /\ UNCHANGED <<maxBytes, reservedBytes, waiters, stopChan>>
    /\ UNCHANGED <<detVars, pipeVars>>

\* Manager.Stop: close(m.stopChan)
ManagerStop ==
    /\ stopChan = "open"
    /\ stopChan' = "closed"
    /\ UNCHANGED <<maxBytes, reservedBytes, waiters, waiterChan, task>>
    /\ UNCHANGED <<detVars, pipeVars>>

\* The steps a task takes on its own once inside a call, and the release a
\* holder always ends with.
TaskStep(t) ==
    \/ TryReserveLoad(t)
    \/ TryReserveCheck(t)
    \/ TryReserveCAS(t)
    \/ ReserveEnqueue(t)
    \/ ReserveWoken(t)
    \/ ReserveStopped(t)
    \/ CallRelease(t)
    \/ ReleaseAdd(t)
    \/ ReleasePop(t)
    \/ ReleaseSend(t)

ArbNext ==
    \/ \E t \in Tasks, n \in 1..MaxBudget : CallTryReserve(t, n)
    \/ \E t \in Tasks, n \in 1..MaxBudget : CallReserve(t, n)
    \/ \E t \in Tasks : TryReserveLoad(t)
    \/ \E t \in Tasks : TryReserveCheck(t)
    \/ \E t \in Tasks : TryReserveCAS(t)
    \/ \E t \in Tasks : ReserveEnqueue(t)
    \/ \E t \in Tasks : ReserveWoken(t)
    \/ \E t \in Tasks : CallRelease(t)
    \/ \E t \in Tasks : ReleaseAdd(t)
    \/ \E t \in Tasks : ReleasePop(t)
    \/ \E t \in Tasks : ReleaseSend(t)

ArbStopNext ==
    \/ ArbNext
    \/ \E t \in Tasks : ReserveStopped(t)
    \/ ManagerStop

\* The arbiter used by NumTasks callers; Stop is never called.
SpecArb == NewManager /\ [][ArbNext]_vars

\* The same, every call in progress keeps taking steps.
SpecArbFair == NewManager /\ [][ArbNext]_vars /\ \A t \in Tasks : WF_vars(TaskStep(t))

\* The arbiter with Manager.Stop.
SpecArbStop == NewManager /\ [][ArbStopNext]_vars

(***************************************************************************)
(* Trades, hourly bars and the aggregator.                                 *)
(* A trade is [Hour, Qty]: the hour its time truncates to and its size;    *)
(* the trades of a file are taker buys at price 1 in the first minute of   *)
(* their hour.  A bar carries the trade counts, the volumes by side and by *)
(* half hour, the whale counts, the VWAP and the unexported accumulators   *)
(* the VWAP is computed from.                                              *)
(***************************************************************************)
HoursPerMonth == DaysPerMonth * HoursPerDay
HoursOf(month) == ((month - 1) * HoursPerMonth + 1)..(month * HoursPerMonth)

\* Trade.Date(): the day of the trade's time
TradeDate(trade) == (trade.Hour - 1) \div HoursPerDay + 1

\* hour.Format("2006-01"): the month of a bar's time
MonthOf(hour) == (hour - 1) \div HoursPerMonth + 1

\* float64 arithmetic on non-negative values: a value is a whole number of
\* the smallest unit in use, a sum is exact while it fits MantissaBits bits
\* and is rounded to the nearest representable value, ties to even,
\* beyond that.
RECURSIVE Ulp(_, _)
Ulp(x, u) == IF x < u * (2 ^ MantissaBits) THEN u ELSE Ulp(x, 2 * u)

FloatRound(x) ==
    LET u == Ulp(x, 1)
        q == x \div u
        r == x % u
    IN IF 2 * r < u THEN q * u
       ELSE IF 2 * r > u THEN (q + 1) * u
       ELSE IF q % 2 = 0 THEN q * u ELSE (q + 1) * u

FloatAdd(a, b) == FloatRound(a + b)

NewHourlyBar ==
    [BuyVol |-> 0, SellVol |-> 0, NTrades |-> 0, BuyCount |-> 0, SellCount |-> 0,
     WhaleBuyCountP99 |-> 0, WhaleSellCountP99 |-> 0,
     WhaleBuyCountP999 |-> 0, WhaleSellCountP999 |-> 0,
     VolFirst30Min |-> 0, VolLast30Min |-> 0,
     VWAP |-> 0, sumPriceQty |-> 0, sumQty |-> 0]

\* HourlyBar.AddTrade(price, qty, isBuy, minute, isWhaleP99, isWhaleP999)
AddTrade(h, price, qty, isBuy, minute, isWhaleP99, isWhaleP999) ==
    [h EXCEPT !.BuyVol = IF isBuy THEN FloatAdd(@, qty) ELSE @,
              !.BuyCount = IF isBuy THEN @ + 1 ELSE @,
              !.SellVol = IF isBuy THEN @ ELSE FloatAdd(@, qty),
              !.SellCount = IF isBuy THEN @ ELSE @ + 1,
              !.NTrades = @ + 1,
              !.WhaleBuyCountP99 = IF isWhaleP99 /\ isBuy THEN @ + 1 ELSE @,
              !.WhaleSellCountP99 = IF isWhaleP99 /\ ~isBuy THEN @ + 1 ELSE @,
              !.WhaleBuyCountP999 = IF isWhaleP999 /\ isBuy THEN @ + 1 ELSE @,
              !.WhaleSellCountP999 = IF isWhaleP999 /\ ~isBuy THEN @ + 1 ELSE @,
              !.VolFirst30Min = IF minute < 30 THEN FloatAdd(@, qty) ELSE @,
              !.VolLast30Min = IF minute < 30 THEN @ ELSE FloatAdd(@, qty),
              !.sumPriceQty = FloatAdd(@, price * qty),
              !.sumQty = FloatAdd(@, qty)]

\* HourlyBar.Finalize()
Finalize(h) ==
    IF h.sumQty > 0 THEN [h EXCEPT !.VWAP = h.sumPriceQty \div h.sumQty] ELSE h

\* sort.Slice(bars, Time.Before)
RECURSIVE InsertBar(_, _)
InsertBar(sorted, b) ==
    IF sorted = <<>> THEN <<b>>
    ELSE IF b.Time < Head(sorted).Time THEN <<b>> \o sorted
    ELSE <<Head(sorted)>> \o InsertBar(Tail(sorted), b)

RECURSIVE SortBars(_)
SortBars(bars) ==
    IF bars = <<>> THEN <<>>
    ELSE InsertBar(SortBars(SubSeq(bars, 1, Len(bars) - 1)), bars[Len(bars)])

\* The pending bars of the hours in a set, finalized, as HourlyResults.
RECURSIVE FinalizePending(_, _)
FinalizePending(pendingBars, hours) ==
    IF hours = {} THEN <<>>
    ELSE LET hour == CHOOSE x \in hours : \A y \in hours : x <= y
         IN <<[Time |-> hour, Bar |-> Finalize(pendingBars[hour])]>>
              \o FinalizePending(pendingBars, hours \ {hour})

\* Detector.AddSample for every trade of the batch (first pass)
RECURSIVE AddSamples(_, _)
AddSamples(d, trades) ==
    IF trades = <<>> THEN d
    ELSE AddSamples(DetectorAddSample(d, TradeDate(Head(trades)), Head(trades).Qty),
                    Tail(trades))

\* Detector.Classify and bar.AddTrade for every trade of the batch (second pass)
RECURSIVE ClassifyAndAdd(_, _, _)
ClassifyAndAdd(agg, d, trades) ==
    IF trades = <<>> THEN [aggregator |-> agg, detector |-> d]
    ELSE LET trade == Head(trades)
             date  == TradeDate(trade)
             classification == Classify(d, date, trade.Qty)
             hour  == trade.Hour
             bar   == IF hour \in DOMAIN agg.pendingBars
                      THEN agg.pendingBars[hour] ELSE NewHourlyBar
             added == AddTrade(bar, 1, trade.Qty, TRUE, 0, classification.IsWhaleP99,
                               classification.IsWhaleP999)
         IN ClassifyAndAdd(
                [agg EXCEPT !.pendingBars =
                    [h \in (DOMAIN agg.pendingBars) \cup {hour} |->
                        IF h = hour THEN added ELSE agg.pendingBars[h]]],
                DetectorGetThresholds(d, date),
                Tail(trades))

\* ProcessTrades finalizing the pending bars at the end of every batch
FinalizingProcessTrades(agg, d, trades) ==
    IF Len(trades) = 0 THEN [aggregator |-> agg, detector |-> d]
    ELSE LET r == CHOOSE x \in {ClassifyAndAdd(agg, sampled, trades) :
                                  sampled \in {AddSamples(d, trades)}} : TRUE
         IN [aggregator |->
                 [pendingBars |-> <<>>,
                  finalizedBars |->
                      r.aggregator.finalizedBars
                        \o FinalizePending(r.aggregator.pendingBars,
                                           DOMAIN r.aggregator.pendingBars)],
             detector |-> r.detector]

\* Aggregator.ProcessTrades(trades)
ProcessTrades(agg, d, trades) ==
    IF Len(trades) = 0 THEN [aggregator |-> agg, detector |-> d]
    ELSE CHOOSE r \in {ClassifyAndAdd(agg, sampled, trades) :
                          sampled \in {AddSamples(d, trades)}} : TRUE

\* Aggregator.Flush()
Flush(agg) ==
    [pendingBars |-> <<>>,
     finalizedBars |-> agg.finalizedBars
                         \o FinalizePending(agg.pendingBars, DOMAIN agg.pendingBars)]

\* Aggregator.GetAllBars()
GetAllBars(agg) ==
    SortBars(agg.finalizedBars \o FinalizePending(agg.pendingBars, DOMAIN agg.pendingBars))

\* GetBarsForMonth leaving the bars it returns in the aggregator
PeekBarsForMonth(agg, month) ==
    [result |->
        SortBars(SelectSeq(agg.finalizedBars, LAMBDA hr : MonthOf(hr.Time) = month)
                   \o FinalizePending(agg.pendingBars,
                        {h \in DOMAIN agg.pendingBars : MonthOf(h) = month})),
     aggregator |-> agg]

\* Aggregator.GetBarsForMonth(month): the bars returned and the aggregator left
GetBarsForMonth(agg, month) ==
    LET hours == {h \in DOMAIN agg.pendingBars : MonthOf(h) = month}
    IN [result |->
            SortBars(SelectSeq(agg.finalizedBars, LAMBDA hr : MonthOf(hr.Time) = month)
                       \o FinalizePending(agg.pendingBars, hours)),
        aggregator |->
            [pendingBars |-> [h \in (DOMAIN agg.pendingBars) \ hours |->
                                  agg.pendingBars[h]],
             finalizedBars |-> SelectSeq(agg.finalizedBars,
                                         LAMBDA hr : MonthOf(hr.Time) # month)]]

\* parser.ParseCSV(path, callback) on a file that has a first line: the
\* callback (ProcessTrades) is run on every full batch and on the rest.
RECURSIVE ParseCSV(_, _, _)
ParseCSV(agg, d, lines) ==
    IF lines = <<>> THEN [aggregator |-> agg, detector |-> d]
    ELSE LET n == IF Len(lines) >= batchSize THEN batchSize ELSE Len(lines)
             r == ProcessTrades(agg, d, SubSeq(lines, 1, n))
         IN ParseCSV(r.aggregator, r.detector, SubSeq(lines, n + 1, Len(lines)))

(***************************************************************************)
(* The checkpoint store.                                                   *)
(***************************************************************************)
\* serializeBar / deserializeBar: the exported fields only
serializeBar(b) ==
    [t |-> b.Time, bv |-> b.Bar.BuyVol, sv |-> b.Bar.SellVol, nt |-> b.Bar.NTrades,
     bc |-> b.Bar.BuyCount, sc |-> b.Bar.SellCount,
     wbc99 |-> b.Bar.WhaleBuyCountP99, wsc99 |-> b.Bar.WhaleSellCountP99,
     wbc999 |-> b.Bar.WhaleBuyCountP999, wsc999 |-> b.Bar.WhaleSellCountP999,
     vf30 |-> b.Bar.VolFirst30Min, vl30 |-> b.Bar.VolLast30Min,
     vwap |-> b.Bar.VWAP]

deserializeBar(s) ==
    [Time |-> s.t,
     Bar |-> [BuyVol |-> s.bv, SellVol |-> s.sv, NTrades |-> s.nt,
              BuyCount |-> s.bc, SellCount |-> s.sc,
              WhaleBuyCountP99 |-> s.wbc99, WhaleSellCountP99 |-> s.wsc99,
              WhaleBuyCountP999 |-> s.wbc999, WhaleSellCountP999 |-> s.wsc999,
              VolFirst30Min |-> s.vf30, VolLast30Min |-> s.vl30,
              VWAP |-> s.vwap, sumPriceQty |-> 0, sumQty |-> 0]]

\* SaveMonthBars: the data written to bars/<month>.json
SerializedBars(bars) == [i \in 1..Len(bars) |-> serializeBar(bars[i])]

\* Manager.BarsDir(): the files of checkpoint/bars
BarsDir == [files |-> disk.bars, unparseable |-> disk.unparseable.bars]

\* LoadMonthBars(dir, month): nil when the file does not exist or does not
\* parse
LoadMonthBars(dir, month) ==
    IF dir.files[month] = <<>> THEN <<>>
    ELSE IF month \in dir.unparseable THEN <<>>
    ELSE LET serialized == dir.files[month][1]
         IN [i \in 1..Len(serialized) |-> deserializeBar(serialized[i])]

\* LoadAllBars(dir, months)
RECURSIVE ConcatMonthBars(_, _)
ConcatMonthBars(dir, months) ==
    IF months = <<>> THEN <<>>
    ELSE LoadMonthBars(dir, Head(months)) \o ConcatMonthBars(dir, Tail(months))

LoadAllBars(dir, months) == SortBars(ConcatMonthBars(dir, months))

\* SaveDetector: the DetectorState written to detector.json
DetectorState(d) ==
    [Reservoirs |-> [date \in DOMAIN d.dailySamples |->
                        [Samples |-> d.dailySamples[date].samples,
                         Count   |-> d.dailySamples[date].count]],
     DateOrder  |-> d.dateOrder,
     Bootstrap  |-> [P99 |-> d.bootstrapThresholds.P99,
                     P999 |-> d.bootstrapThresholds.P999,
                     Bootstrapped |-> d.bootstrapped]]

\* Detector.ImportState(detectorState.ToWhaleReservoirs(), detectorState.DateOrder)
ImportState(d, ds) ==
    [d EXCEPT !.dailySamples =
                  [date \in DOMAIN ds.Reservoirs |->
                      NewReservoirFromSamples(samplesPerDay,
                                              ds.Reservoirs[date].Samples,
                                              ds.Reservoirs[date].Count)],
              !.dateOrder = ds.DateOrder,
              !.thresholdCache = <<>>]

\* Detector.ImportBootstrap(detectorState.ToWhaleBootstrap())
ImportBootstrap(d, ds) ==
    [d EXCEPT !.bootstrapThresholds = Thresholds(ds.Bootstrap.P99, ds.Bootstrap.P999),
              !.bootstrapped = ds.Bootstrap.Bootstrapped,
              !.bootstrapBuffer = IF ds.Bootstrap.Bootstrapped THEN <<>> ELSE @]

\* Pipeline.restoreDetectorState on the detector NewPipeline made:
\* LoadDetector returns nil when detector.json does not exist.
restoreDetectorState(d) ==
    IF disk.detectorJson = <<>> THEN d
    ELSE ImportBootstrap(ImportState(d, disk.detectorJson[1].data),
                         disk.detectorJson[1].data)

\* Manager.Load without the check of the version
LoadAnyVersion ==
    IF disk.stateJson = <<>> \/ disk.unparseable.stateJson
    THEN [CompletedMonths |-> <<>>]
    ELSE [CompletedMonths |-> disk.stateJson[1].CompletedMonths]

\* Manager.Load: nil when state.json does not exist, does not parse or has
\* another version; Run then starts from an empty State.
Load ==
    IF disk.stateJson = <<>> \/ disk.unparseable.stateJson
    THEN [CompletedMonths |-> <<>>]
    ELSE IF disk.stateJson[1].Version # currentVersion
    THEN [CompletedMonths |-> <<>>]
    ELSE [CompletedMonths |-> disk.stateJson[1].CompletedMonths]

\* Manager.Save: the data written to state.json
StateData(st) == [Version |-> currentVersion, CompletedMonths |-> st.CompletedMonths]

\* State.IsCompleted / State.GetPendingMonths
IsCompleted(st, month) == \E i \in 1..Len(st.CompletedMonths) : st.CompletedMonths[i] = month
AllMonths(st, allMonths) == allMonths
GetPendingMonths(st, allMonths) == SelectSeq(allMonths, LAMBDA m : ~IsCompleted(st, m))

\* cfg.GenerateMonths(): the months asked for, in calendar order
RepeatedMonths == [i \in 1..(NumMonths + 1) |-> IF i = 1 THEN 1 ELSE i - 1]
GenerateMonths == [i \in 1..NumMonths |-> i]

\* GetMonthsInOrder(months): sort.Strings
LatestFirst(months) == [i \in 1..Len(months) |-> Sort(months)[Len(months) + 1 - i]]
GetMonthsInOrder(months) == Sort(months)

\* memory.EstimateProcessMemory(csvSize): 500 MB plus 1% of the file; in whole
\* GiB, rounded up, that is 1 for every file below 50 GiB
EstimateProcessMemory(csvSize) == 1

\* The months state.json on disk lists as completed.
ListedOnDisk ==
    IF disk.stateJson = <<>> THEN {}
    ELSE {disk.stateJson[1].CompletedMonths[i] :
              i \in 1..Len(disk.stateJson[1].CompletedMonths)}

(***************************************************************************)
(* The pipeline: Run, the download workers, the dispatcher, processMonth   *)
(* and saveCheckpoint.  The process can crash at any step; the disk stays. *)
(***************************************************************************)
arbRest == <<maxBytes, waiters, waiterChan, stopChan, task>>

Running == hist.phase = "running"

\* Pipeline.Run up to the start of the workers.  Every pending month is
\* queued for download (downloadQueue holds 100) and the queue is closed.
\* With nothing pending Run returns loadExistingResults(allMonths).
Run ==
    /\ hist.phase = "down"
    /\ LET st == Load
           restore == Len(st.CompletedMonths) > 0
           pendingMonths == GetPendingMonths(st, GenerateMonths)
           folded == IF restore /\ disk.detectorJson # <<>>
                     THEN disk.detectorJson[1].after ELSE {}
           listed == {m \in Months : IsCompleted(st, m)}
       IN /\ detector' = IF restore THEN restoreDetectorState(detector) ELSE detector
          /\ IF Len(pendingMonths) = 0
             THEN /\ pipeline' = [pipeline EXCEPT
                                     !.state = st,
                                     !.result = LoadAllBars(BarsDir, GenerateMonths)]
                  /\ dispatcher' = dispatcher
                  /\ hist' = [hist EXCEPT !.phase = "done", !.folded = folded,
                                      !.listed = listed]
             ELSE /\ pipeline' = [pipeline EXCEPT
                                     !.state = st,
                                     !.monthOrder = GetMonthsInOrder(pendingMonths),
                                     !.downloadQueue = pendingMonths]
                  /\ dispatcher' = [dispatcher EXCEPT !.pc = "loop"]
                  /\ hist' = [hist EXCEPT !.phase = "running", !.folded = folded,
                                      !.listed = listed]
    /\ UNCHANGED <<archive, downloadWorkers, disk, aggregator, rngSeed>>
    /\ UNCHANGED arbVars

\* p.ui.WorkerChan <- update.  With the UI enabled its updateLoop receives
\* every update, so the send always gets through and the channel is not
\* tracked; with the UI disabled (UI.Start returns before starting
\* updateLoop) nothing ever receives and the send blocks once the buffer
\* is full.
CanNotify(p) == p.uiEnabled \/ p.workerChan < WorkerChanCap
Notified(p) == IF p.uiEnabled THEN p ELSE [p EXCEPT !.workerChan = @ + 1]

\* download workers still in their loop and not busy with a month
IdleWorkers == downloadWorkers - pipeline.exited - Cardinality(pipeline.downloading)

\* downloadWorker: for month := range p.downloadQueue, ctx not done, and
\* the "active" update to the UI
WorkerTake ==
    /\ Running
    /\ pipeline.downloadQueue # <<>>
    /\ IdleWorkers > 0
    /\ ~pipeline.ctxDone
    /\ CanNotify(pipeline)
    /\ pipeline' = [Notified(pipeline) EXCEPT
                       !.downloadQueue = Tail(@),
                       !.downloading = @ \cup {Head(pipeline.downloadQueue)}]
    /\ UNCHANGED <<archive, downloadWorkers, disk, dispatcher, aggregator, hist>>
    /\ UNCHANGED <<arbVars, detVars>>

\* downloadMonth finds the CSV on disk; the worker sends the "inactive"
\* update and queues the job.
DownloadReuse(m) ==
    /\ Running
    /\ m \in pipeline.downloading
    /\ m \in disk.csv
    /\ CanNotify(pipeline)
    /\ pipeline' = [Notified(pipeline) EXCEPT !.downloading = @ \ {m},
                                              !.processQueue = Append(@, m)]
    /\ UNCHANGED <<archive, downloadWorkers, disk, dispatcher, aggregator, hist>>
    /\ UNCHANGED <<arbVars, detVars>>

\* downloadMonth downloads and extracts the CSV; the worker queues the job.
DownloadOk(m) ==
    /\ Running
    /\ m \in pipeline.downloading
    /\ m \notin disk.csv
    /\ CanNotify(pipeline)
    /\ disk' = [disk EXCEPT !.csv = @ \cup {m}]
    /\ pipeline' = [Notified(pipeline) EXCEPT !.downloading = @ \ {m},
                                              !.processQueue = Append(@, m)]
    /\ UNCHANGED <<archive, downloadWorkers, dispatcher, aggregator, hist>>
    /\ UNCHANGED <<arbVars, detVars>>

\* downloadMonth returns an error; the worker reports the month as failed.
DownloadFail(m) ==
    /\ Running
    /\ m \in pipeline.downloading
    /\ m \notin disk.csv
    /\ hist.faults < MaxFaults
    /\ CanNotify(pipeline)
    /\ pipeline' = [Notified(pipeline) EXCEPT !.downloading = @ \ {m},
                                              !.failedMonths = Append(@, m)]
    /\ hist' = [hist EXCEPT !.faults = @ + 1]
    /\ UNCHANGED <<archive, downloadWorkers, disk, dispatcher, aggregator>>
    /\ UNCHANGED <<arbVars, detVars>>

\* p.downloadWg.Wait(); close(p.processQueue): every worker has left its
\* loop, at the end of the closed download queue or on ctx.Done()
CloseProcessQueue ==
    /\ Running
    /\ IF pipeline.exited = downloadWorkers THEN TRUE ELSE pipeline.downloadQueue = <<>>
    /\ pipeline.downloading = {}
    /\ ~pipeline.processQueueClosed
    /\ pipeline' = [pipeline EXCEPT !.processQueueClosed = TRUE]
    /\ UNCHANGED <<archive, downloadWorkers, disk, dispatcher, aggregator, hist>>
    /\ UNCHANGED <<arbVars, detVars>>

\* dispatcher: the head of its inner loop
AtLoop == Running /\ dispatcher.pc = "loop"
HasNext == dispatcher.nextMonthIdx < Len(pipeline.monthOrder)
nextMonth == pipeline.monthOrder[dispatcher.nextMonthIdx + 1]

\* if failedSet[nextMonth] { nextMonthIdx++; continue }
NeverSkipped(d, month) == FALSE
Skipped(d, month) == month \in d.failedSet

DispatchSkipFailed ==
    /\ AtLoop
    /\ HasNext
    /\ Skipped(dispatcher, nextMonth)
    /\ dispatcher' = [dispatcher EXCEPT !.nextMonthIdx = @ + 1]
    /\ UNCHANGED <<archive, downloadWorkers, disk, pipeline, aggregator, hist>>
    /\ UNCHANGED <<arbVars, detVars>>

\* The next month is ready: Reserve (it blocks until the memory is there),
\* delete(readyJobs, nextMonth), nextMonthIdx++, processMonthSequential up
\* to its "active" update to the UI.
DispatchReserve ==
    /\ AtLoop
    /\ HasNext
    /\ ~Skipped(dispatcher, nextMonth)
    /\ nextMonth \in dispatcher.readyJobs
    /\ Available(reservedBytes) >= EstimateProcessMemory(0)
    /\ CanNotify(pipeline)
    /\ pipeline' = Notified(pipeline)
    /\ reservedBytes' = reservedBytes + EstimateProcessMemory(0)
    /\ dispatcher' = [dispatcher EXCEPT !.readyJobs = @ \ {nextMonth},
                                        !.nextMonthIdx = @ + 1,
                                        !.job = nextMonth,
                                        !.pc = "parse"]
    /\ hist' = [hist EXCEPT !.started = Append(@, nextMonth)]
    /\ UNCHANGED <<archive, downloadWorkers, disk, aggregator>>
    /\ UNCHANGED <<arbRest, detVars>>

\* The inner loop has left off: nothing more to start for now.
AtSelect ==
    /\ AtLoop
    /\ IF HasNext
       THEN ~Skipped(dispatcher, nextMonth) /\ nextMonth \notin dispatcher.readyJobs
       ELSE ~dispatcher.processQueueClosed

\* if processQueueClosed && nextMonthIdx >= len(p.monthOrder) { return }
DispatchReturn ==
    /\ AtLoop
    /\ ~HasNext
    /\ dispatcher.processQueueClosed
    /\ dispatcher' = [dispatcher EXCEPT !.pc = "returned"]
    /\ UNCHANGED <<archive, downloadWorkers, disk, pipeline, aggregator, hist>>
    /\ UNCHANGED <<arbVars, detVars>>

\* case job, ok := <-p.processQueue, ok: readyJobs[job.Month] = job
DispatchReceiveJob ==
    /\ AtSelect
    /\ pipeline.processQueue # <<>>
    /\ dispatcher' = [dispatcher EXCEPT !.readyJobs = @ \cup {Head(pipeline.processQueue)}]
    /\ pipeline' = [pipeline EXCEPT !.processQueue = Tail(@)]
    /\ UNCHANGED <<archive, downloadWorkers, disk, aggregator, hist>>
    /\ UNCHANGED <<arbVars, detVars>>

\* case job, ok := <-p.processQueue, !ok: processQueueClosed = true
DispatchReceiveClosed ==
    /\ AtSelect
    /\ pipeline.processQueue = <<>>
    /\ pipeline.processQueueClosed
    /\ ~dispatcher.processQueueClosed
    /\ dispatcher' = [dispatcher EXCEPT !.processQueueClosed = TRUE]
    /\ UNCHANGED <<archive, downloadWorkers, disk, pipeline, aggregator, hist>>
    /\ UNCHANGED <<arbVars, detVars>>

\* case failed := <-p.failedMonths: failedSet[failed] = true
DispatchReceiveFailed ==
    /\ AtSelect
    /\ pipeline.failedMonths # <<>>
    /\ dispatcher' = [dispatcher EXCEPT !.failedSet = @ \cup {Head(pipeline.failedMonths)}]
    /\ pipeline' = [pipeline EXCEPT !.failedMonths = Tail(@)]
    /\ UNCHANGED <<archive, downloadWorkers, disk, aggregator, hist>>
    /\ UNCHANGED <<arbVars, detVars>>

\* processMonth: parser.ParseCSV with Aggregator.ProcessTrades as the callback.
\* A file without a first line is an error: processMonth returns at once.
ProcessMonthParse ==
    /\ Running
    /\ dispatcher.pc = "parse"
    /\ LET lines == archive[dispatcher.job]
           r == ParseCSV(aggregator, detector, lines)
       IN IF lines = <<>>
          THEN /\ dispatcher' = [dispatcher EXCEPT !.pc = "release"]
               /\ UNCHANGED <<aggregator, detector, hist>>
          ELSE /\ aggregator' = r.aggregator
               /\ detector' = r.detector
               /\ hist' = [hist EXCEPT !.folded = @ \cup {dispatcher.job}]
               /\ dispatcher' = [dispatcher EXCEPT !.pc = "remove_csv"]
    /\ UNCHANGED <<archive, downloadWorkers, disk, pipeline, rngSeed>>
    /\ UNCHANGED arbVars

\* saveCheckpoint, step by step: bars, then detector, then state.
StateFirst ==
    <<"append", "state_write", "state_rename", "get_bars", "bars_write",
      "bars_rename", "detector_write", "detector_rename">>
CheckpointSteps ==
    <<"get_bars", "bars_write", "bars_rename", "detector_write",
      "detector_rename", "append", "state_write", "state_rename">>

\* the step after pc; after the last one saveCheckpoint and processMonth return
StepAfter(pc) ==
    LET i == CHOOSE k \in 1..Len(CheckpointSteps) : CheckpointSteps[k] = pc
    IN IF i = Len(CheckpointSteps) THEN "release" ELSE CheckpointSteps[i + 1]

\* os.Remove(job.CSVPath), then saveCheckpoint(job.Month)
RemoveCSV ==
    /\ Running
    /\ dispatcher.pc = "remove_csv"
    /\ disk' = [disk EXCEPT !.csv = @ \ {dispatcher.job}]
    /\ dispatcher' = [dispatcher EXCEPT !.pc = CheckpointSteps[1]]
    /\ UNCHANGED <<archive, downloadWorkers, pipeline, aggregator, hist>>
    /\ UNCHANGED <<arbVars, detVars>>

\* bars := p.aggregator.GetBarsForMonth(month)
GetBars ==
    /\ Running
    /\ dispatcher.pc = "get_bars"
    /\ LET r == GetBarsForMonth(aggregator, dispatcher.job)
       IN /\ aggregator' = r.aggregator
          /\ dispatcher' = [dispatcher EXCEPT !.bars = r.result,
                                              !.pc = StepAfter("get_bars")]
    /\ UNCHANGED <<archive, downloadWorkers, disk, pipeline, hist>>
    /\ UNCHANGED <<arbVars, detVars>>

\* p.state.CompletedMonths = append(p.state.CompletedMonths, month)
AppendCompleted ==
    /\ Running
    /\ dispatcher.pc = "append"
    /\ pipeline' = [pipeline EXCEPT
                       !.state.CompletedMonths = Append(@, dispatcher.job)]
    /\ dispatcher' = [dispatcher EXCEPT !.pc = StepAfter("append")]
    /\ UNCHANGED <<archive, downloadWorkers, disk, aggregator, hist>>
    /\ UNCHANGED <<arbVars, detVars>>

\* The file an atomicWrite step belongs to, and the data written to it by
\* SaveMonthBars, SaveDetector (with the months the snapshot was taken after)
\* and Manager.Save.
WriteSteps == {"bars_write", "detector_write", "state_write"}
RenameSteps == {"bars_rename", "detector_rename", "state_rename"}

FileOf(pc) ==
    CASE pc \in {"bars_write", "bars_rename"} -> "bars"
      [] pc \in {"detector_write", "detector_rename"} -> "detector"
      [] OTHER -> "state"

Payload(file) ==
    CASE file = "bars" -> SerializedBars(dispatcher.bars)
      [] file = "detector" -> [data |-> DetectorState(detector), after |-> hist.folded]
      [] OTHER -> StateData(pipeline.state)

\* the <path>.tmp of the file a step belongs to
TmpOf(pc) ==
    CASE FileOf(pc) = "bars" -> disk.barsTmp
      [] FileOf(pc) = "detector" -> disk.detectorTmp
      [] OTHER -> disk.stateTmp

\* atomicWrite: os.WriteFile(path + ".tmp", data)
AtomicWriteTmp ==
    /\ Running
    /\ dispatcher.pc \in WriteSteps
    /\ disk' = CASE FileOf(dispatcher.pc) = "bars" ->
                      [disk EXCEPT !.barsTmp = <<[month |-> dispatcher.job,
                                                  data |-> Payload("bars")]>>]
                 [] FileOf(dispatcher.pc) = "detector" ->
                      [disk EXCEPT !.detectorTmp = <<Payload("detector")>>]
                 [] OTHER ->
                      [disk EXCEPT !.stateTmp = <<Payload("state")>>]
    /\ dispatcher' = [dispatcher EXCEPT !.pc = StepAfter(dispatcher.pc)]
    /\ UNCHANGED <<archive, downloadWorkers, pipeline, aggregator, hist>>
    /\ UNCHANGED <<arbVars, detVars>>

\* atomicWrite: os.Rename(path + ".tmp", path)
AtomicWriteRename ==
    /\ Running
    /\ dispatcher.pc \in RenameSteps
    /\ TmpOf(dispatcher.pc) # <<>>
    /\ disk' = CASE FileOf(dispatcher.pc) = "bars" ->
                      [disk EXCEPT !.bars[disk.barsTmp[1].month] = <<disk.barsTmp[1].data>>,
                                   !.unparseable.bars = @ \ {disk.barsTmp[1].month},
                                   !.barsTmp = <<>>]
                 [] FileOf(dispatcher.pc) = "detector" ->
                      [disk EXCEPT !.detectorJson = disk.detectorTmp, !.detectorTmp = <<>>]
                 [] OTHER ->
                      [disk EXCEPT !.stateJson = disk.stateTmp,
                                   !.unparseable.stateJson = FALSE,
                                   !.stateTmp = <<>>]
    /\ dispatcher' = [dispatcher EXCEPT !.pc = StepAfter(dispatcher.pc)]
    /\ UNCHANGED <<archive, downloadWorkers, pipeline, aggregator, hist>>
    /\ UNCHANGED <<arbVars, detVars>>

\* os.WriteFile or os.Rename returns an error: saveCheckpoint returns it,
\* processMonth logs it and returns.
AtomicWriteFails ==
    /\ Running
    /\ dispatcher.pc \in WriteSteps \cup RenameSteps
    /\ hist.faults < MaxFaults
    /\ dispatcher' = [dispatcher EXCEPT !.pc = "release"]
    /\ hist' = [hist EXCEPT !.faults = @ + 1,
                            !.writeFailed = @ \cup {dispatcher.job}]
    /\ UNCHANGED <<archive, downloadWorkers, disk, pipeline, aggregator>>
    /\ UNCHANGED <<arbVars, detVars>>

\* processMonthSequential returning without the deferred Release
ReleaseForgotten ==
    /\ Running
    /\ dispatcher.pc = "release"
    /\ CanNotify(pipeline)
    /\ pipeline' = Notified(pipeline)
    /\ dispatcher' = [dispatcher EXCEPT !.pc = "loop", !.job = 0, !.bars = <<>>]
    /\ hist' = [hist EXCEPT !.finished = @ \cup {dispatcher.job}]
    /\ UNCHANGED <<archive, downloadWorkers, disk, aggregator>>
    /\ UNCHANGED <<arbVars, detVars>>

\* processMonthSequential after processMonth: the "inactive" update to the
\* UI, the result, and the deferred p.memMgr.Release(reservedMem)
ReleaseMemory ==
    /\ Running
    /\ dispatcher.pc = "release"
    /\ CanNotify(pipeline)
    /\ pipeline' = Notified(pipeline)
    /\ reservedBytes' = reservedBytes - EstimateProcessMemory(0)
    /\ dispatcher' = [dispatcher EXCEPT !.pc = "loop", !.job = 0, !.bars = <<>>]
    /\ hist' = [hist EXCEPT !.finished = @ \cup {dispatcher.job}]
    /\ UNCHANGED <<archive, downloadWorkers, disk, aggregator>>
    /\ UNCHANGED <<arbRest, detVars>>

\* Run after p.wg.Wait(): Flush, GetAllBars, LoadAllBars of the completed
\* months, merge and sort.
RunFinish ==
    /\ Running
    /\ dispatcher.pc = "returned"
    /\ aggregator' = Flush(aggregator)
    /\ pipeline' = [pipeline EXCEPT !.result =
            SortBars(LoadAllBars(BarsDir, pipeline.state.CompletedMonths)
                       \o GetAllBars(Flush(aggregator)))]
    /\ hist' = [hist EXCEPT !.phase = "done"]
    /\ UNCHANGED <<archive, downloadWorkers, disk, dispatcher>>
    /\ UNCHANGED <<arbVars, detVars>>

\* The process dies: its memory is gone, the files renamed into place stay.
\* (A <path>.tmp left behind is never read.)
Crash ==
    /\ Running
    /\ hist.faults < MaxFaults
    /\ disk' = [disk EXCEPT !.barsTmp = <<>>, !.detectorTmp = <<>>, !.stateTmp = <<>>]
    /\ pipeline' = [NewPipeline EXCEPT !.uiEnabled = pipeline.uiEnabled]
    /\ dispatcher' = NewDispatcher
    /\ aggregator' = NewAggregator
    /\ detector' = NewDetector
    /\ reservedBytes' = 0
    /\ hist' = NewHist(hist.faults + 1)
    /\ UNCHANGED <<archive, downloadWorkers, rngSeed>>
    /\ UNCHANGED arbRest

(***************************************************************************)
(* Shutdown.  main's signal goroutine calls Pipeline.Stop while Run is     *)
(* under way: p.cancel(), then p.stateMgr.Save(p.state), the same          *)
(* atomicWrite of state.json the dispatcher uses, with no lock.            *)
(***************************************************************************)
\* Stop: p.cancel()
StopCancel ==
    /\ Running
    /\ pipeline.stop.pc = "idle"
    /\ pipeline' = [pipeline EXCEPT !.ctxDone = TRUE, !.stop.pc = "marshal"]
    /\ UNCHANGED <<archive, downloadWorkers, disk, dispatcher, aggregator, hist>>
    /\ UNCHANGED <<arbVars, detVars>>

\* Stop, Manager.Save: json.MarshalIndent(st) of the state as it is now
StopMarshal ==
    /\ hist.phase \in {"running", "done"}
    /\ pipeline.stop.pc = "marshal"
    /\ pipeline' = [pipeline EXCEPT !.stop = [pc |-> "write",
                                             data |-> <<StateData(pipeline.state)>>]]
    /\ UNCHANGED <<archive, downloadWorkers, disk, dispatcher, aggregator, hist>>
    /\ UNCHANGED <<arbVars, detVars>>

\* Stop, atomicWrite: os.WriteFile("state.json.tmp", data)
StopWrite ==
    /\ hist.phase \in {"running", "done"}
    /\ pipeline.stop.pc = "write"
    /\ disk' = [disk EXCEPT !.stateTmp = pipeline.stop.data]
    /\ pipeline' = [pipeline EXCEPT !.stop.pc = "rename"]
    /\ UNCHANGED <<archive, downloadWorkers, dispatcher, aggregator, hist>>
    /\ UNCHANGED <<arbVars, detVars>>

\* Stop, atomicWrite: os.Rename("state.json.tmp", "state.json"); an error
\* (the file is gone) is logged.
StopRename ==
    /\ hist.phase \in {"running", "done"}
    /\ pipeline.stop.pc = "rename"
    /\ disk' = IF disk.stateTmp = <<>> THEN disk
               ELSE [disk EXCEPT !.stateJson = disk.stateTmp,
                                 !.unparseable.stateJson = FALSE,
                                 !.stateTmp = <<>>]
    /\ pipeline' = [pipeline EXCEPT !.stop = [pc |-> "done", data |-> <<>>]]
    /\ UNCHANGED <<archive, downloadWorkers, dispatcher, aggregator, hist>>
    /\ UNCHANGED <<arbVars, detVars>>

\* downloadWorker: a month received from the queue after p.cancel():
\* case <-p.ctx.Done(): return
WorkerCancelled ==
    /\ Running
    /\ pipeline.downloadQueue # <<>>
    /\ IdleWorkers > 0
    /\ pipeline.ctxDone
    /\ pipeline' = [pipeline EXCEPT !.downloadQueue = Tail(@), !.exited = @ + 1]
    /\ UNCHANGED <<archive, downloadWorkers, disk, dispatcher, aggregator, hist>>
    /\ UNCHANGED <<arbVars, detVars>>

\* downloadMonth: DownloadWithRetry(p.ctx, ...) returns the context's error;
\* the worker reports the month as failed.
DownloadCancelled(m) ==
    /\ Running
    /\ m \in pipeline.downloading
    /\ m \notin disk.csv
    /\ pipeline.ctxDone
    /\ CanNotify(pipeline)
    /\ pipeline' = [Notified(pipeline) EXCEPT !.downloading = @ \ {m},
                                              !.failedMonths = Append(@, m)]
    /\ UNCHANGED <<archive, downloadWorkers, disk, dispatcher, aggregator, hist>>
    /\ UNCHANGED <<arbVars, detVars>>

\* dispatcher, in its select: case <-p.ctx.Done(): return
DispatchCancelled ==
    /\ AtSelect
    /\ pipeline.ctxDone
    /\ dispatcher' = [dispatcher EXCEPT !.pc = "returned"]
    /\ UNCHANGED <<archive, downloadWorkers, disk, pipeline, aggregator, hist>>
    /\ UNCHANGED <<arbVars, detVars>>

\* atomicWrite: os.Rename fails because <path>.tmp is no longer there;
\* saveCheckpoint returns the error, processMonth logs it and returns.
AtomicWriteRenameMissing ==
    /\ Running
    /\ dispatcher.pc \in RenameSteps
    /\ TmpOf(dispatcher.pc) = <<>>
    /\ dispatcher' = [dispatcher EXCEPT !.pc = "release"]
    /\ hist' = [hist EXCEPT !.writeFailed = @ \cup {dispatcher.job}]
    /\ UNCHANGED <<archive, downloadWorkers, disk, pipeline, aggregator>>
    /\ UNCHANGED <<arbVars, detVars>>

(***************************************************************************)
(* The runs checked.                                                       *)
(***************************************************************************)
\* one caller of the arbiter, the dispatcher; room for one month at a time
PipelineArbiter ==
    /\ maxBytes = minFreeBytes + EstimateProcessMemory(0)
    /\ reservedBytes = 0
    /\ waiters = <<>>
    /\ waiterChan = [t \in Tasks |-> 0]
    /\ stopChan = "open"
    /\ task = [t \in Tasks |-> TaskIdle]

\* A monthly file: at most MaxTrades trades of that month, in time order.
TradesOf(month) == [Hour : HoursOf(month), Qty : WindowQtys]

InTimeOrder(lines) ==
    \A i \in 1..(Len(lines) - 1) : lines[i].Hour <= lines[i + 1].Hour

MonthFiles(month) ==
    UNION {{lines \in [1..n -> TradesOf(month)] : InTimeOrder(lines)} : n \in 1..MaxTrades}

\* An empty file, or one trade in the month's first hour.
SmallFiles(month) ==
    {<<>>, <<[Hour |-> (month - 1) * HoursPerMonth + 1, Qty |-> 1]>>}

\* NewPipeline on an empty disk.
NewRun ==
    /\ detector = NewDetector
    /\ disk = EmptyDisk
    /\ pipeline = NewPipeline
    /\ dispatcher = NewDispatcher
    /\ aggregator = NewAggregator
    /\ hist = NewHist(0)

\* Any schedule, with failing downloads, failing writes and crashes.
PipeInit ==
    /\ PipelineArbiter
    /\ rngSeed = 0
    /\ archive \in {f \in [Months -> UNION {SmallFiles(m) : m \in Months}] :
                       \A m \in Months : f[m] \in SmallFiles(m)}
    /\ downloadWorkers \in 1..MaxWorkers
    /\ NewRun

PipeNext ==
    \/ Run
    \/ WorkerTake
    \/ \E m \in Months : DownloadReuse(m)
    \/ \E m \in Months : DownloadOk(m)
    \/ \E m \in Months : DownloadFail(m)
    \/ CloseProcessQueue
    \/ DispatchSkipFailed
    \/ DispatchReserve
    \/ DispatchReturn
    \/ DispatchReceiveJob
    \/ DispatchReceiveClosed
    \/ DispatchReceiveFailed
    \/ ProcessMonthParse
    \/ RemoveCSV
    \/ GetBars
    \/ AtomicWriteTmp
    \/ AtomicWriteRename
    \/ AppendCompleted
    \/ AtomicWriteFails
    \/ ReleaseMemory
    \/ RunFinish
    \/ Crash

SpecPipe == PipeInit /\ [][PipeNext]_vars

\* Run has returned and main has exited; the program is started again on
\* the same data directory.
Rerun ==
    /\ hist.phase = "done"
    /\ disk' = [disk EXCEPT !.barsTmp = <<>>, !.detectorTmp = <<>>, !.stateTmp = <<>>]
    /\ pipeline' = [NewPipeline EXCEPT !.uiEnabled = pipeline.uiEnabled]
    /\ dispatcher' = NewDispatcher
    /\ aggregator' = NewAggregator
    /\ detector' = NewDetector
    /\ reservedBytes' = 0
    /\ hist' = NewHist(hist.faults)
    /\ UNCHANGED <<archive, downloadWorkers, rngSeed>>
    /\ UNCHANGED arbRest

RerunNext == PipeNext \/ Rerun

SpecRerun == PipeInit /\ [][RerunNext]_vars

\* Any files and any sampling stream, one download worker; the process can
\* crash and is restarted, nothing else fails.
ResumeInit ==
    /\ PipelineArbiter
    /\ rngSeed \in 0..samplesPerDay
    /\ archive \in {f \in [Months -> UNION {MonthFiles(m) : m \in Months}] :
                       \A m \in Months : f[m] \in MonthFiles(m)}
    /\ downloadWorkers = 1
    /\ NewRun

ResumeNext ==
    \/ Run
    \/ WorkerTake
    \/ \E m \in Months : DownloadReuse(m)
    \/ \E m \in Months : DownloadOk(m)
    \/ CloseProcessQueue
    \/ DispatchReserve
    \/ DispatchReturn
    \/ DispatchReceiveJob
    \/ DispatchReceiveClosed
    \/ ProcessMonthParse
    \/ RemoveCSV
    \/ GetBars
    \/ AtomicWriteTmp
    \/ AtomicWriteRename
    \/ AppendCompleted
    \/ ReleaseMemory
    \/ RunFinish
    \/ Crash

SpecResume == ResumeInit /\ [][ResumeNext]_vars

\* Between two runs a file of the checkpoint is lost, or its bytes are
\* damaged, or state.json is replaced by one of another schema version.
Damages == {"missing", "unparseable", "version"}

DamageState(kind) ==
    /\ hist.phase = "down"
    /\ disk.stateJson # <<>>
    /\ ~disk.unparseable.stateJson
    /\ disk.stateJson[1].Version = currentVersion
    /\ disk' = CASE kind = "missing" -> [disk EXCEPT !.stateJson = <<>>]
                 [] kind = "unparseable" -> [disk EXCEPT !.unparseable.stateJson = TRUE]
                 [] OTHER -> [disk EXCEPT !.stateJson[1].Version = currentVersion + 1]
    /\ UNCHANGED <<archive, downloadWorkers, pipeline, dispatcher, aggregator, hist>>
    /\ UNCHANGED <<arbVars, detVars>>

DamageBars(m, kind) ==
    /\ hist.phase = "down"
    /\ disk.bars[m] # <<>>
    /\ m \notin disk.unparseable.bars
    /\ disk' = IF kind = "missing" THEN [disk EXCEPT !.bars[m] = <<>>]
               ELSE [disk EXCEPT !.unparseable.bars = @ \cup {m}]
    /\ UNCHANGED <<archive, downloadWorkers, pipeline, dispatcher, aggregator, hist>>
    /\ UNCHANGED <<arbVars, detVars>>

\* One download worker, small files; the process can crash and is
\* restarted, and the checkpoint can be damaged while it is down.
DamagedInit ==
    /\ PipelineArbiter
    /\ rngSeed = 0
    /\ archive \in {f \in [Months -> UNION {SmallFiles(m) : m \in Months}] :
                       \A m \in Months : f[m] \in SmallFiles(m)}
    /\ downloadWorkers = 1
    /\ NewRun

DamagedNext ==
    \/ ResumeNext
    \/ \E kind \in Damages : DamageState(kind)
    \/ \E m \in Months, kind \in Damages \ {"version"} : DamageBars(m, kind)

SpecDamaged == DamagedInit /\ [][DamagedNext]_vars

\* DownloadWithRetry, the head of the loop: attempt < maxRetries; after the
\* first attempt, time.After(delay) and delay *= 2.
RetryWait(m) ==
    /\ Running
    /\ m \in pipeline.downloading
    /\ pipeline.retry[m].pc = "loop"
    /\ pipeline.retry[m].attempt < maxRetries
    /\ pipeline' = [pipeline EXCEPT
          !.retry[m] = IF @.attempt > 0
                       THEN [@ EXCEPT !.pc = "download",
                                      !.waited = Append(@, pipeline.retry[m].delay),
                                      !.delay = 2 * @]
                       ELSE [@ EXCEPT !.pc = "download"]]
    /\ UNCHANGED <<archive, downloadWorkers, disk, dispatcher, aggregator, hist>>
    /\ UNCHANGED <<arbVars, detVars>>

\* Download returns an error: lastErr = err, os.Remove(destPath), attempt++
RetryDownloadFails(m) ==
    /\ Running
    /\ m \in pipeline.downloading
    /\ pipeline.retry[m].pc = "download"
    /\ pipeline' = [pipeline EXCEPT !.retry[m].pc = "loop",
                                    !.retry[m].attempt = @ + 1]
    /\ UNCHANGED <<archive, downloadWorkers, disk, dispatcher, aggregator, hist>>
    /\ UNCHANGED <<arbVars, detVars>>

\* Download returns the size: downloadMonth extracts the CSV and the worker
\* queues the job.
RetryDownloadOk(m) ==
    /\ pipeline.retry[m].pc = "download"
    /\ DownloadOk(m)

\* the loop has ended: "after 3 retries: ..."; downloadMonth returns the
\* error and the worker reports the month as failed.
RetryExhausted(m) ==
    /\ Running
    /\ m \in pipeline.downloading
    /\ pipeline.retry[m].pc = "loop"
    /\ pipeline.retry[m].attempt >= maxRetries
    /\ CanNotify(pipeline)
    /\ pipeline' = [Notified(pipeline) EXCEPT !.downloading = @ \ {m},
                                              !.failedMonths = Append(@, m)]
    /\ UNCHANGED <<archive, downloadWorkers, disk, dispatcher, aggregator, hist>>
    /\ UNCHANGED <<arbVars, detVars>>

\* The download workers of one run, each download with its retries; the
\* context is not cancelled.
DownloadNext ==
    \/ Run
    \/ WorkerTake
    \/ \E m \in Months : RetryWait(m)
    \/ \E m \in Months : RetryDownloadFails(m)
    \/ \E m \in Months : RetryDownloadOk(m)
    \/ \E m \in Months : RetryExhausted(m)
    \/ CloseProcessQueue

SpecDownload == PipeInit /\ [][DownloadNext]_vars

\* One process, fairly scheduled: every goroutine that can take a step
\* eventually takes one.  Downloads and checkpoint writes can fail; the
\* process does not crash.
WorkerStep ==
    \/ WorkerTake
    \/ \E m \in Months : DownloadOk(m)

DispatcherStep ==
    \/ DispatchSkipFailed
    \/ DispatchReserve
    \/ DispatchReturn
    \/ DispatchReceiveJob
    \/ DispatchReceiveClosed
    \/ DispatchReceiveFailed
    \/ ProcessMonthParse
    \/ RemoveCSV
    \/ GetBars
    \/ AtomicWriteTmp
    \/ AtomicWriteRename
    \/ AppendCompleted
    \/ ReleaseMemory

MainStep ==
    \/ Run
    \/ CloseProcessQueue
    \/ RunFinish

FaultStep ==
    \/ \E m \in Months : DownloadFail(m)
    \/ AtomicWriteFails

FairNext == WorkerStep \/ DispatcherStep \/ MainStep \/ FaultStep

\* A runnable goroutine is eventually scheduled: the download workers, the
\* dispatcher and Run itself each take a step they can take.
Fairness == WF_vars(WorkerStep) /\ WF_vars(DispatcherStep) /\ WF_vars(MainStep)

SpecPipeFair == PipeInit /\ [][FairNext]_vars /\ Fairness

\* The same, started with the terminal UI or with --no-tui (UI.Start then
\* returns before starting updateLoop).
UIInit ==
    /\ PipelineArbiter
    /\ rngSeed = 0
    /\ archive \in {f \in [Months -> UNION {SmallFiles(m) : m \in Months}] :
                       \A m \in Months : f[m] \in SmallFiles(m)}
    /\ downloadWorkers \in 1..MaxWorkers
    /\ detector = NewDetector
    /\ disk = EmptyDisk
    /\ pipeline \in {[NewPipeline EXCEPT !.uiEnabled = enabled] : enabled \in BOOLEAN}
    /\ dispatcher = NewDispatcher
    /\ aggregator = NewAggregator
    /\ hist = NewHist(0)

SpecUI == UIInit /\ [][FairNext]_vars /\ Fairness

\* One process that is told to stop at any moment of its run, fairly
\* scheduled.  The memory budget leaves room for one month, or for none.
StopInit ==
    /\ maxBytes \in {minFreeBytes, minFreeBytes + EstimateProcessMemory(0)}
    /\ reservedBytes = 0
    /\ waiters = <<>>
    /\ waiterChan = [t \in Tasks |-> 0]
    /\ stopChan = "open"
    /\ task = [t \in Tasks |-> TaskIdle]
    /\ rngSeed = 0
    /\ archive \in {f \in [Months -> UNION {SmallFiles(m) : m \in Months}] :
                       \A m \in Months : f[m] \in SmallFiles(m)}
    /\ downloadWorkers \in 1..MaxWorkers
    /\ detector = NewDetector
    /\ disk = EmptyDisk
    /\ pipeline = NewPipeline
    /\ dispatcher = NewDispatcher
    /\ aggregator = NewAggregator
    /\ hist = NewHist(0)

StopWorkerStep ==
    \/ WorkerStep
    \/ WorkerCancelled
    \/ \E m \in Months : DownloadCancelled(m)

StopDispatcherStep ==
    \/ DispatcherStep
    \/ DispatchCancelled
    \/ AtomicWriteRenameMissing

\* the goroutine of the signal handler
StopStep ==
    \/ StopCancel
    \/ StopMarshal
    \/ StopWrite
    \/ StopRename

StopNext == StopWorkerStep \/ StopDispatcherStep \/ MainStep \/ StopStep

\* The signal may come at any time or never, and the process may end before
\* Stop has saved: no fairness for the signal handler.
StopFairness ==
    WF_vars(StopWorkerStep) /\ WF_vars(StopDispatcherStep) /\ WF_vars(MainStep)

SpecStop == StopInit /\ [][StopNext]_vars /\ StopFairness

(***************************************************************************)
(* The aggregator on its own: any trades in batches of any size up to      *)
(* batchSize, GetBarsForMonth of any month at any time, Flush at the end   *)
(* of processing.                                                          *)
(***************************************************************************)
AllHours == 1..(NumMonths * HoursPerMonth)
Batches == UNION {[1..n -> [Hour : AllHours, Qty : WindowQtys]] : n \in 1..batchSize}

\* the trades of a batch in an hour
InHour(batch, h) == Len(SelectSeq(batch, LAMBDA t : t.Hour = h))

AggProcessTrades(batch) ==
    /\ Running
    /\ TotalCount(detector, detector.dateOrder) + Len(batch) <= MaxTrades
    /\ LET r == ProcessTrades(aggregator, detector, batch)
       IN /\ aggregator' = r.aggregator
          /\ detector' = r.detector
    /\ hist' = [hist EXCEPT !.fed =
                   [h \in (DOMAIN hist.fed) \cup {batch[i].Hour : i \in 1..Len(batch)} |->
                       (IF h \in DOMAIN hist.fed THEN hist.fed[h] ELSE 0)
                         + InHour(batch, h)]]
    /\ UNCHANGED <<archive, downloadWorkers, disk, pipeline, dispatcher, rngSeed>>
    /\ UNCHANGED arbVars

AggGetBarsForMonth(month) ==
    /\ LET r == GetBarsForMonth(aggregator, month)
       IN /\ aggregator' = r.aggregator
          /\ dispatcher' = [dispatcher EXCEPT !.job = month, !.bars = r.result]
    /\ hist' = [hist EXCEPT !.fed =
                   [h \in {x \in DOMAIN hist.fed : MonthOf(x) # month} |-> hist.fed[h]]]
    /\ UNCHANGED <<archive, downloadWorkers, disk, pipeline>>
    /\ UNCHANGED <<arbVars, detVars>>

AggFlush ==
    /\ Running
    /\ aggregator' = Flush(aggregator)
    /\ hist' = [hist EXCEPT !.phase = "done"]
    /\ UNCHANGED <<archive, downloadWorkers, disk, pipeline, dispatcher>>
    /\ UNCHANGED <<arbVars, detVars>>

AggInit ==
    /\ ArbiterUnused
    /\ rngSeed \in 0..samplesPerDay
    /\ detector = NewDetector
    /\ archive = [m \in Months |-> <<>>]
    /\ downloadWorkers = 1
    /\ disk = EmptyDisk
    /\ pipeline = NewPipeline
    /\ dispatcher = NewDispatcher
    /\ aggregator = NewAggregator
    /\ hist = [NewHist(0) EXCEPT !.phase = "running"]

AggNext ==
    \/ \E batch \in Batches : AggProcessTrades(batch)
    \/ \E month \in Months : AggGetBarsForMonth(month)
    \/ AggFlush

SpecAgg == AggInit /\ [][AggNext]_vars

(***************************************************************************)
(* One hourly bar on its own: any AddTrade calls, with any flags, or with  *)
(* the flags Detector.Classify gives while the detector is fed samples.    *)
(***************************************************************************)
\* the bar: the one ProcessTrades has created for the first hour
TheBar == aggregator.pendingBars[1]
OneBar(h) == [NewAggregator EXCEPT !.pendingBars = [x \in {1} |-> h]]

BarQtys == {1, 2 ^ MantissaBits}
BarMinutes == {0, 29, 30, 59}
ClassQtys == {1, 10, 100}

BarAddTrade(qty, isBuy, minute, isWhaleP99, isWhaleP999) ==
    /\ TheBar.NTrades < MaxBarTrades
    /\ aggregator' = OneBar(AddTrade(TheBar, 1, qty, isBuy, minute,
                                     isWhaleP99, isWhaleP999))
    /\ UNCHANGED <<archive, downloadWorkers, disk, pipeline, dispatcher, hist>>
    /\ UNCHANGED <<arbVars, detVars>>

BarInit ==
    /\ ArbiterUnused
    /\ DetectorUnused
    /\ archive = [m \in Months |-> <<>>]
    /\ downloadWorkers = 1
    /\ disk = EmptyDisk
    /\ pipeline = NewPipeline
    /\ dispatcher = NewDispatcher
    /\ aggregator = OneBar(NewHourlyBar)
    /\ hist = NewHist(0)

BarNext ==
    \E qty \in BarQtys, isBuy \in BOOLEAN, minute \in BarMinutes,
       isWhaleP99 \in BOOLEAN, isWhaleP999 \in BOOLEAN :
        BarAddTrade(qty, isBuy, minute, isWhaleP99, isWhaleP999)

SpecBar == BarInit /\ [][BarNext]_vars

\* ProcessTrades, second pass, for one trade: Classify (which takes the
\* thresholds through GetThresholds and its cache), then bar.AddTrade
ClassifiedAddTrade(date, qty, isBuy) ==
    /\ TheBar.NTrades < MaxClassified
    /\ LET classification == Classify(detector, date, qty)
       IN aggregator' = OneBar(AddTrade(TheBar, 1, qty, isBuy, 0,
                                        classification.IsWhaleP99,
                                        classification.IsWhaleP999))
    /\ detector' = DetectorGetThresholds(detector, date)
    /\ UNCHANGED <<archive, downloadWorkers, disk, pipeline, dispatcher, hist>>
    /\ UNCHANGED <<arbVars, rngSeed>>

ClassifyInit ==
    /\ ArbiterUnused
    /\ DetectorInit
    /\ archive = [m \in Months |-> <<>>]
    /\ downloadWorkers = 1
    /\ disk = EmptyDisk
    /\ pipeline = NewPipeline
    /\ dispatcher = NewDispatcher
    /\ aggregator = OneBar(NewHourlyBar)
    /\ hist = NewHist(0)

ClassifyNext ==
    \/ \E date \in Dates, qty \in WindowQtys : AddSample(date, qty)
    \/ \E date \in Dates : GetThresholds(date)
    \/ \E date \in Dates, qty \in ClassQtys, isBuy \in BOOLEAN :
           ClassifiedAddTrade(date, qty, isBuy)

SpecClassify == ClassifyInit /\ [][ClassifyNext]_vars

(***************************************************************************)
(* Two reservoirs on their own, held under the keys 1 and 2: values are    *)
(* added, one is merged into the other, and one is exported and created    *)
(* again from what was exported.                                           *)
(***************************************************************************)
ResKeys == {1, 2}
ResValues == {1, 2, 3}

Reservoirs2(a, b) ==
    [NewDetector EXCEPT !.dailySamples = [key \in ResKeys |-> IF key = 1 THEN a ELSE b]]

ResAdd(key, value) ==
    /\ detector.dailySamples[key].count < MaxSeen
    /\ detector' = [detector EXCEPT
                       !.dailySamples[key] = ReservoirAdd(@, value)]
    /\ UNCHANGED <<arbVars, pipeVars, rngSeed>>

ResMerge(key, other) ==
    /\ key /= other
    /\ detector.dailySamples[key].count + detector.dailySamples[other].count <= MaxSeen
    /\ detector' = [detector EXCEPT
                       !.dailySamples[key] =
                           ReservoirMerge(@, detector.dailySamples[other])]
    /\ UNCHANGED <<arbVars, pipeVars, rngSeed>>

\* ExportState, then NewReservoirFromSamples on what it returned
ResRestore(key) ==
    /\ LET exported == ExportState(detector.dailySamples[key])
       IN detector' = [detector EXCEPT
                          !.dailySamples[key] =
                              NewReservoirFromSamples(@.capacity, exported.Samples,
                                                      exported.Count)]
    /\ UNCHANGED <<arbVars, pipeVars, rngSeed>>

ReservoirInit ==
    /\ ArbiterUnused
    /\ PipelineUnused
    /\ rngSeed \in 0..(RngRange - 1)
    /\ detector = Reservoirs2(NewReservoir(Capacity), NewReservoir(Capacity))

ReservoirNext ==
    \/ \E key \in ResKeys, value \in ResValues : ResAdd(key, value)
    \/ \E key \in ResKeys, other \in ResKeys : ResMerge(key, other)
    \/ \E key \in ResKeys : ResRestore(key)

SpecReservoir == ReservoirInit /\ [][ReservoirNext]_vars

\* the same value added to both reservoirs: the first is the one a restart
\* exports and creates again, the second is never persisted
ResFeed(value) ==
    /\ detector.dailySamples[1].count < MaxSeen
    /\ detector' = [detector EXCEPT
                       !.dailySamples = [key \in ResKeys |-> ReservoirAdd(@[key], value)]]
    /\ UNCHANGED <<arbVars, pipeVars, rngSeed>>

RestartNext ==
    \/ \E value \in ResValues : ResFeed(value)
    \/ ResRestore(1)

SpecRestart == ReservoirInit /\ [][RestartNext]_vars

(***************************************************************************)
(* Claims about the memory arbiter.                                        *)
(***************************************************************************)

RECURSIVE SumOutstanding(_)
SumOutstanding(ts) ==
    IF ts = {} THEN 0
    ELSE LET t == CHOOSE x \in ts : TRUE
         IN task[t].outstanding + SumOutstanding(ts \ {t})

\* C6: under any interleaving of TryReserve, Reserve and Release by the
\* tasks, each releasing only what it reserved, reservedBytes equals the sum
\* of the outstanding reservations and 0 <= reservedBytes <= maxBytes - minFreeBytes.
C6_ReservedIsSumOfOutstanding ==
    /\ reservedBytes = SumOutstanding(Tasks)
    /\ 0 <= reservedBytes
    /\ reservedBytes <= maxBytes - minFreeBytes

\* Two tasks hold reservations at once while a third call is between its
\* load and its compare-and-swap, or a waiter is queued.
C6_Witness ==
    /\ \E t1 \in Tasks, t2 \in Tasks :
          /\ t1 # t2
          /\ task[t1].pc = "holding" /\ task[t1].outstanding > 0
          /\ task[t2].pc \in {"holding", "select"} /\ task[t2].bytes > 0
    /\ reservedBytes = maxBytes - minFreeBytes

\* C7: TryReserve(n) returns true iff maxBytes - reserved - minFreeBytes >= n
\* for the value of reserved its compare-and-swap succeeds on, and then
\* reserved has grown by exactly n; when it returns false reserved is
\* unchanged (and the value it loaded left less than n available).
C7_TryReserveContract ==
    [][\A t \in Tasks :
          /\ (task[t].pc = "try_cas" /\ task'[t].pc = "holding")
                => /\ reservedBytes' = reservedBytes + task[t].bytes
                   /\ maxBytes - reservedBytes - minFreeBytes >= task[t].bytes
          /\ (task[t].pc = "try_check" /\ task'[t].pc \in {"idle", "enqueue", "requeue"})
                => /\ reservedBytes' = reservedBytes
                   /\ maxBytes - task[t].current - minFreeBytes < task[t].bytes
          /\ (task[t].pc = "try_check" /\ task'[t].pc = "try_cas")
                => maxBytes - task[t].current - minFreeBytes >= task[t].bytes
      ]_vars

\* A direct TryReserve has returned false to one task while another holds a
\* reservation obtained through TryReserve's compare-and-swap.
C7_Witness ==
    \E t1 \in Tasks, t2 \in Tasks :
        /\ task[t1].pc = "idle" /\ task[t1].ret = "false"
        /\ task[t2].pc = "holding" /\ task[t2].ret = "true"
        /\ reservedBytes = task[t2].bytes

\* C8: a task blocked in Reserve(n) does not stay blocked for ever while
\* maxBytes - reserved - minFreeBytes >= n keeps holding.
C8_BlockedReserveReturns ==
    \A t \in Tasks :
        []<>(~(task[t].pc = "select" /\ waiterChan[t] = 0
               /\ Available(reservedBytes) >= task[t].bytes))

\* C9: a task that has returned from Reserve and carries on as the holder
\* really holds its bytes: a return caused by the stop signal is told apart.
C9_StoppedReserveIsToldApart ==
    \A t \in Tasks :
        (task[t].pc = "holding" /\ task[t].ret = "returned")
            => task[t].outstanding = task[t].bytes

(***************************************************************************)
(* Claims about the rolling percentile window.                             *)
(***************************************************************************)

\* The detector with every sample recorded for a date >= date erased.
SamplesBefore(rp, date) ==
    [rp EXCEPT
       !.dailySamples = [d \in {x \in DOMAIN rp.dailySamples : x < date} |->
                             rp.dailySamples[d]],
       !.dateOrder = SelectSeq(rp.dateOrder, LAMBDA d : d < date)]

\* A sample is recorded for date in this step: its reservoir's count grows.
Recorded(date) ==
    /\ date \in DOMAIN detector'.dailySamples
    /\ \/ date \notin DOMAIN detector.dailySamples
       \/ detector'.dailySamples[date].count > detector.dailySamples[date].count

C1_ListedMonthIsDurable ==
    \A m \in ListedOnDisk :
        /\ disk.bars[m] # <<>>
        /\ disk.detectorJson # <<>>
        /\ m \in disk.detectorJson[1].after

\* The process has crashed inside the checkpoint of a later month: its bars
\* file is in place, state.json lists only the month before it.
C1_Witness ==
    /\ hist.phase = "down"
    /\ hist.faults > 0
    /\ \E m \in Months :
          /\ m \in ListedOnDisk
          /\ m + 1 \in Months
          /\ m + 1 \notin ListedOnDisk
          /\ disk.bars[m + 1] # <<>>

\* C3: within one run the months are handed to processMonth in strictly
\* increasing order, a month is being processed only when every earlier
\* pending month has finished processing or is marked failed, and at most
\* one month is being processed at a time.
C3_ChronologicalDispatch ==
    /\ \A i \in 1..Len(hist.started) : \A j \in 1..Len(hist.started) :
          i < j => hist.started[i] < hist.started[j]
    /\ \A i \in 1..Len(hist.started) :
          hist.started[i] \notin hist.finished =>
              \A k \in 1..Len(pipeline.monthOrder) :
                  pipeline.monthOrder[k] < hist.started[i] =>
                      \/ pipeline.monthOrder[k] \in hist.finished
                      \/ pipeline.monthOrder[k] \in dispatcher.failedSet
    /\ Cardinality({hist.started[i] : i \in 1..Len(hist.started)} \ hist.finished) <= 1

\* The last month's download has completed before the first month's: its
\* job is held in readyJobs while the first month is still being downloaded
\* and nothing has been started.
C3_Witness ==
    /\ Running
    /\ NumMonths \in dispatcher.readyJobs
    /\ 1 \in pipeline.downloading
    /\ NumMonths > 1
    /\ hist.started = <<>>

\* A single uninterrupted run in which nothing fails: every month is
\* processed in order and checkpointed, then Run merges the bars.
RECURSIVE Uninterrupted(_, _)
Uninterrupted(st, months) ==
    IF months = <<>> THEN st
    ELSE IF archive[Head(months)] = <<>> THEN Uninterrupted(st, Tail(months))
    ELSE LET r == ParseCSV(st.aggregator, st.detector, archive[Head(months)])
             g == GetBarsForMonth(r.aggregator, Head(months))
         IN Uninterrupted(
                [aggregator |-> g.aggregator,
                 detector   |-> r.detector,
                 bars       |-> [st.bars EXCEPT ![Head(months)] =
                                     <<SerializedBars(g.result)>>],
                 completed  |-> Append(st.completed, Head(months))],
                Tail(months))

UninterruptedRun ==
    LET st == Uninterrupted([aggregator |-> NewAggregator, detector |-> NewDetector,
                             bars |-> EmptyDisk.bars, completed |-> <<>>],
                            GenerateMonths)
    IN [detector |-> st.detector,
        result   |-> SortBars(LoadAllBars([files |-> st.bars, unparseable |-> {}], st.completed)
                                \o GetAllBars(Flush(st.aggregator)))]

\* The daily reservoirs as SaveDetector exports them: samples and counts.
Reservoirs(d) == DetectorState(d).Reservoirs

\* C4: idempotent resume.  When a run that was interrupted and restarted on
\* the same months returns, its bar series is the one a single
\* uninterrupted run on the same files and sampling stream returns.
C4_ResumeGivesSameBars ==
    hist.phase = "done" => pipeline.result = UninterruptedRun.result

\* C5: after a crash between the steps of a month's checkpoint the restart
\* recomputes the month without double-counting: when the run returns,
\* every daily reservoir's count and samples are those of an uninterrupted run.
C5_NoDoubleCounting ==
    hist.phase = "done" => Reservoirs(detector) = Reservoirs(UninterruptedRun.detector)

\* C10: a month one of whose checkpoint writes failed in this run is not
\* listed as completed by state.json, neither by that write nor by a later
\* one of the same run.
C10_FailedMonthNotListed ==
    \A m \in hist.writeFailed : m \notin ListedOnDisk

\* C11: when a checkpoint file of month M cannot be written or renamed, the
\* run ends in failure: no later month is handed to processMonthSequential
\* and Run does not return a result as if nothing had happened.
C11_WriteFailureIsFatal ==
    \A m \in hist.writeFailed :
        /\ hist.started[Len(hist.started)] = m
        /\ hist.phase # "done"

\* the members of a sequence
Range(xs) == {xs[i] : i \in 1..Len(xs)}

\* C13: a month that state.json listed as completed at start-up is not
\* downloaded, processed or checkpointed again in that run; the pending
\* months are the requested months that were not listed, in calendar order.
C13_CompletedMonthsAreNotRedone ==
    Running =>
        /\ pipeline.monthOrder
               = SelectSeq(GenerateMonths, LAMBDA m : m \notin hist.listed)
        /\ \A m \in hist.listed :
               /\ m \notin Range(pipeline.downloadQueue)
               /\ m \notin pipeline.downloading
               /\ m \notin Range(pipeline.processQueue)
               /\ m \notin dispatcher.readyJobs
               /\ m \notin Range(hist.started)
               /\ dispatcher.job # m

\* a restarted run that found month 1 listed and is processing another month
C13_Witness ==
    /\ Running
    /\ hist.listed = {1}
    /\ dispatcher.job \in Months \ {1}
    /\ dispatcher.pc = "state_rename"

\* The states of the month state machine a month is in, read off the queues,
\* the workers and the dispatcher.  A month whose processMonthSequential has
\* returned is checkpointed when its file was parsed and no checkpoint write
\* failed, and failed otherwise.
MonthStates(m) ==
    (IF m \in Range(pipeline.downloadQueue) THEN {"queued"} ELSE {})
    \cup (IF m \in pipeline.downloading THEN {"downloading"} ELSE {})
    \cup (IF m \in Range(pipeline.processQueue) \cup dispatcher.readyJobs
          THEN {"ready"} ELSE {})
    \cup (IF dispatcher.job = m THEN {"processing"} ELSE {})
    \cup (IF m \in Range(pipeline.failedMonths) \cup dispatcher.failedSet
          THEN {"failed"} ELSE {})
    \cup (IF m \in hist.finished
          THEN IF m \in hist.folded /\ m \notin hist.writeFailed
               THEN {"checkpointed"} ELSE {"failed"}
          ELSE {})

MonthMoves ==
    {<<"queued", "downloading">>, <<"downloading", "ready">>,
     <<"downloading", "failed">>, <<"ready", "processing">>,
     <<"processing", "checkpointed">>, <<"processing", "failed">>}

\* C14: within one run every pending month is in exactly one state and moves
\* only along queued -> downloading -> ready -> processing -> checkpointed,
\* or from downloading or processing to failed; nothing leaves checkpointed
\* or failed, and no month enters processing twice.
C14_MonthStateMachine ==
    /\ [](Running =>
            /\ \A m \in Range(pipeline.monthOrder) : Cardinality(MonthStates(m)) = 1
            /\ \A i, j \in 1..Len(hist.started) :
                   hist.started[i] = hist.started[j] => i = j)
    /\ [][(Running /\ hist'.phase # "down") =>
             \A m \in Range(pipeline.monthOrder) :
                 \/ MonthStates(m)' = MonthStates(m)
                 \/ \E mv \in MonthMoves :
                        MonthStates(m) = {mv[1]} /\ MonthStates(m)' = {mv[2]}
         ]_vars

\* one month failed in download, another one checkpointed
C14_Witness ==
    /\ Running
    /\ \E m \in Months : MonthStates(m) = {"checkpointed"}
    /\ \E m \in Months : m \in dispatcher.failedSet /\ MonthStates(m) = {"failed"}

\* the months a download worker has reported as failed
ReportedFailed == Range(pipeline.failedMonths) \cup dispatcher.failedSet

\* the dispatcher's cursor is beyond month m
Past(m) ==
    \A i \in 1..Len(pipeline.monthOrder) :
        pipeline.monthOrder[i] = m => dispatcher.nextMonthIdx >= i

\* C12: a month whose download or extraction failed is never processed nor
\* added to CompletedMonths in that run, and it does not hold up the months
\* after it: the run comes to its end, and by then the dispatcher's cursor
\* has moved past the failed month and every later pending month has been
\* started (or has failed itself).
C12_FailedMonthIsSkipped ==
    /\ [](\A m \in ReportedFailed :
              /\ m \notin Range(hist.started)
              /\ m \notin Range(pipeline.state.CompletedMonths)
              /\ hist.phase = "done" =>
                     /\ Past(m)
                     /\ \A n \in Range(pipeline.monthOrder) :
                            n > m => n \in Range(hist.started) \cup ReportedFailed)
    /\ <>(hist.phase = "done")

\* month 1 failed in download and a later month is being processed
C12_Witness ==
    /\ 1 \in dispatcher.failedSet
    /\ dispatcher.job \in Months \ {1}
    /\ dispatcher.pc = "get_bars"

(***************************************************************************)
(* Claims about shutdown.                                                  *)
(***************************************************************************)
\* months the dispatcher has checkpointed in this run without an error:
\* bars/<month>.json, detector.json and state.json were all written
Checkpointed == {m \in hist.finished : m \in hist.folded /\ m \notin hist.writeFailed}

Stopped == hist.phase = "done" /\ pipeline.stop.pc = "done"

\* C15: on a shutdown signal the month in flight is checkpointed whole
\* before the dispatcher exits (when the dispatcher has returned, every month
\* it started has finished), and once the pipeline has stopped state.json
\* lists exactly the months whose three checkpoint files were all written:
\* every month checkpointed in the run is listed, and every listed month has
\* its bars file and a detector snapshot taken after it.
C15_StopKeepsCheckpointWhole ==
    /\ dispatcher.pc = "returned" => Range(hist.started) = hist.finished
    /\ Stopped =>
          /\ Checkpointed \subseteq ListedOnDisk
          /\ \A m \in ListedOnDisk :
                /\ disk.bars[m] # <<>>
                /\ disk.detectorJson # <<>>
                /\ m \in disk.detectorJson[1].after

\* C17: no checkpoint file is written by two tasks at the same time, on
\* shutdown either: the dispatcher and the caller of Stop are never both
\* between the write of state.json.tmp and its rename.
C17_OneWriterPerFile ==
    ~(dispatcher.pc = "state_rename" /\ pipeline.stop.pc = "rename")

\* C16: after the cancellation token has fired the dispatcher exits, from
\* its select or from Reserve, and the run returns.
C16_CancelledRunReturns ==
    pipeline.ctxDone ~> (dispatcher.pc = "returned" /\ hist.phase = "done")


(***************************************************************************)
(* Claims about termination.                                               *)
(***************************************************************************)
\* C18: without a shutdown, with every estimate within the budget and fair
\* scheduling, every pending month reaches a terminal state (checkpointed or
\* failed) and Run returns.
C18_EveryMonthFinishes ==
    <>(/\ hist.phase = "done"
       /\ \A m \in Range(pipeline.monthOrder) :
              MonthStates(m) \in {{"checkpointed"}, {"failed"}})

(***************************************************************************)
(* Claims about the aggregator.                                            *)
(***************************************************************************)
Sorted(bars) == \A i \in 1..Len(bars) : \A j \in i..Len(bars) : bars[i].Time <= bars[j].Time

Times(bars) == {bars[i].Time : i \in 1..Len(bars)}

\* C19: GetBarsForMonth(M) returns exactly the pending and the finalized
\* bars whose hour lies in month M, each finalized, sorted by hour; it
\* removes them and leaves the bars of every other month as they were, and
\* a following GetBarsForMonth, of M or of another month, returns none of
\* them.
C19_FinalizeMonthExtracts ==
    \A m \in Months :
        LET r    == GetBarsForMonth(aggregator, m)
            pend == {h \in DOMAIN aggregator.pendingBars : MonthOf(h) = m}
            fin  == SelectSeq(aggregator.finalizedBars, LAMBDA b : MonthOf(b.Time) = m)
            left == r.aggregator
        IN /\ Len(r.result) = Cardinality(pend) + Len(fin)
           /\ \A h \in pend : \E i \in 1..Len(r.result) :
                  r.result[i] = [Time |-> h, Bar |-> Finalize(aggregator.pendingBars[h])]
           /\ \A i \in 1..Len(fin) : \E j \in 1..Len(r.result) : r.result[j] = fin[i]
           /\ \A i \in 1..Len(r.result) : Finalize(r.result[i].Bar) = r.result[i].Bar
           /\ Sorted(r.result)
           /\ DOMAIN left.pendingBars = (DOMAIN aggregator.pendingBars) \ pend
           /\ \A h \in DOMAIN left.pendingBars :
                  left.pendingBars[h] = aggregator.pendingBars[h]
           /\ left.finalizedBars =
                  SelectSeq(aggregator.finalizedBars, LAMBDA b : MonthOf(b.Time) # m)
           /\ \A m2 \in Months :
                  Times(GetBarsForMonth(left, m2).result) \cap Times(r.result) = {}

\* month 1 has been taken out, with a bar in it, and a bar of month 2 is
\* still pending
C19_Witness ==
    /\ dispatcher.job = 1
    /\ dispatcher.bars # <<>>
    /\ \E h \in DOMAIN aggregator.pendingBars : MonthOf(h) = 2

\* C20: however the trades are cut into batches, the aggregator holds at
\* most one bar per hour; trades of one hour, in whichever batches they
\* come, are counted in the one pending bar of that hour; ProcessTrades
\* finalizes and emits nothing; and the bars GetBarsForMonth returns for a
\* month are one per hour that received a trade, with all its trades.
C20_OneBarPerHour ==
    /\ [](/\ Times(aggregator.finalizedBars) \cap DOMAIN aggregator.pendingBars = {}
          /\ Cardinality(Times(aggregator.finalizedBars)) = Len(aggregator.finalizedBars)
          /\ Running =>
                /\ aggregator.finalizedBars = <<>>
                /\ DOMAIN aggregator.pendingBars = DOMAIN hist.fed
                /\ \A h \in DOMAIN hist.fed :
                       aggregator.pendingBars[h].NTrades = hist.fed[h])
    /\ [][\A m \in Months :
            AggGetBarsForMonth(m) =>
                /\ Times(dispatcher'.bars) = {h \in DOMAIN hist.fed : MonthOf(h) = m}
                /\ Cardinality(Times(dispatcher'.bars)) = Len(dispatcher'.bars)
                /\ \A i \in 1..Len(dispatcher'.bars) :
                       dispatcher'.bars[i].Bar.NTrades = hist.fed[dispatcher'.bars[i].Time]]_vars

\* a bar returned by GetBarsForMonth holds more trades than one batch can
\* carry
C20_Witness ==
    \E i \in 1..Len(dispatcher.bars) : dispatcher.bars[i].Bar.NTrades > batchSize

(***************************************************************************)
(* Claims about one hourly bar.                                            *)
(***************************************************************************)
\* C21: after any sequence of AddTrade calls the bar's trade count is the
\* sum of its buy and sell counts, and the volumes of its two half hours
\* add up to the buy volume plus the sell volume.
C21_BarTotals ==
    /\ TheBar.NTrades = TheBar.BuyCount + TheBar.SellCount
    /\ TheBar.VolFirst30Min + TheBar.VolLast30Min = TheBar.BuyVol + TheBar.SellVol

\* C22: on each side of every bar, whale count at P99.9 <= whale count at
\* P99 <= trade count; and whatever thresholds the detector returns for a
\* date, a quantity flagged at P99.9 is flagged at P99.
C22_WhaleCountsNested ==
    /\ TheBar.WhaleBuyCountP999 <= TheBar.WhaleBuyCountP99
    /\ TheBar.WhaleBuyCountP99 <= TheBar.BuyCount
    /\ TheBar.WhaleSellCountP999 <= TheBar.WhaleSellCountP99
    /\ TheBar.WhaleSellCountP99 <= TheBar.SellCount
    /\ \A date \in Dates, qty \in ClassQtys :
           Classify(detector, date, qty).IsWhaleP999
               => Classify(detector, date, qty).IsWhaleP99

\* a sell flagged at P99 only and a buy flagged at both, the detector
\* bootstrapped
C22_Witness ==
    /\ TheBar.WhaleSellCountP99 = 1
    /\ TheBar.WhaleSellCountP999 = 0
    /\ TheBar.WhaleBuyCountP999 = 1
    /\ detector.bootstrapped

(***************************************************************************)
(* Claims about the reservoir.                                             *)
(***************************************************************************)
\* C23: whatever is done to a reservoir of capacity k (Add, Merge,
\* ExportState and NewReservoirFromSamples), its count never decreases and
\* it holds min(count, k) samples.
C23_ReservoirSize ==
    /\ [](\A key \in ResKeys :
            LET r == detector.dailySamples[key]
            IN Len(r.samples) = IF r.count < r.capacity THEN r.count ELSE r.capacity)
    /\ [][\A key \in ResKeys :
            detector'.dailySamples[key].count >= detector.dailySamples[key].count]_vars

\* C24: a reservoir created again from its exported samples and count and
\* then fed further values holds the same samples as a reservoir that was
\* fed all the values without being exported.
C24_RestartContinuesStream ==
    detector.dailySamples[1].samples = detector.dailySamples[2].samples

(***************************************************************************)
(* Claims about a damaged checkpoint.                                      *)
(***************************************************************************)
\* state.json is missing, does not parse or carries another version
NoPriorState ==
    \/ disk.stateJson = <<>>
    \/ disk.unparseable.stateJson
    \/ disk.stateJson[1].Version # currentVersion

\* C25: when state.json is missing, unparseable or of another schema
\* version, the run starts from scratch: every requested month is pending
\* and the detector starts empty, no snapshot being restored.
C25_StartsFromScratch ==
    [][(hist.phase = "down" /\ hist'.phase # "down" /\ NoPriorState) =>
          /\ pipeline'.monthOrder = GenerateMonths
          /\ pipeline'.downloadQueue = GenerateMonths
          /\ pipeline'.state.CompletedMonths = <<>>
          /\ hist'.listed = {}
          /\ detector' = NewDetector]_vars

\* a run under way that found a state.json of another version, listing a
\* month, next to a detector snapshot
C25_Witness ==
    /\ Running
    /\ hist.faults > 0
    /\ disk.stateJson # <<>>
    /\ disk.stateJson[1].Version # currentVersion
    /\ disk.stateJson[1].CompletedMonths # <<>>
    /\ disk.detectorJson # <<>>
    /\ pipeline.downloadQueue = GenerateMonths

\* C26: a month that state.json lists as completed is in the final series
\* of the run with its bars, also when bars/<month>.json was missing or
\* unparseable at load: the month is then computed again.
C26_DamagedBarsRebuilt ==
    hist.phase = "done" =>
        \A m \in hist.listed :
            \A i \in 1..Len(archive[m]) : archive[m][i].Hour \in Times(pipeline.result)

\* C27: a month whose CSV file is empty yields zero bars and is
\* checkpointed: once it has been processed, bars/<month>.json holds no bar
\* and state.json lists the month.
C27_EmptyMonthCheckpointed ==
    \A m \in hist.finished :
        archive[m] = <<>> =>
            /\ m \in ListedOnDisk
            /\ disk.bars[m] = <<SerializedBars(<<>>)>>

(***************************************************************************)
(* Claims about the download.                                              *)
(***************************************************************************)
\* C28: a month is marked failed only after its download has been retried
\* three times after the first attempt, with waits of 1 s, 2 s and 4 s; a
\* month whose download succeeded on some attempt is queued as a ready job
\* and is not marked failed.
C28_ThreeRetriesWithBackoff ==
    /\ \A m \in Range(pipeline.failedMonths) :
           /\ pipeline.retry[m].attempt = 4
           /\ pipeline.retry[m].waited = <<1, 2, 4>>
    /\ \A m \in Range(pipeline.processQueue) : m \notin Range(pipeline.failedMonths)

(***************************************************************************)
(* Claims about pruning the window.                                        *)
(***************************************************************************)
\* C29: PruneOldDates(currentDate) deletes only days older than the
\* windowDays + 1 most recent days before currentDate: those days stay with
\* their reservoirs, so at least min(windowDays + 1, days before
\* currentDate) days before currentDate remain, and the thresholds of
\* currentDate are what they were before the prune.
C29_PruneKeepsWindow ==
    \A currentDate \in Dates :
        LET pruned == DetectorPruneOldDates(detector, currentDate)
            before == DatesBefore(detector.dateOrder, currentDate)
            recent == LastN(before, windowDays + 1)
        IN /\ \A i \in 1..Len(recent) :
                  /\ recent[i] \in DOMAIN pruned.dailySamples
                  /\ pruned.dailySamples[recent[i]] = detector.dailySamples[recent[i]]
           /\ LastN(DatesBefore(pruned.dateOrder, currentDate), windowDays + 1) = recent
           /\ DetectorThresholds(pruned, currentDate)
                  = DetectorThresholds(detector, currentDate)

(***************************************************************************)
(* Claims about the series a run returns.                                  *)
(***************************************************************************)
\* the trades of month m's file that fall in an hour
TradesIn(m, hour) == {k \in 1..Len(archive[m]) : archive[m][k].Hour = hour}

\* C30: the series Run returns is sorted by hour, has at most one bar for
\* an hour, and holds the bars of every month processed in this run: for
\* every hour in which the month's file has trades, a bar counting them.
C30_FinalSeries ==
    hist.phase = "done" =>
        /\ Sorted(pipeline.result)
        /\ \A i, j \in 1..Len(pipeline.result) :
               pipeline.result[i].Time = pipeline.result[j].Time => i = j
        /\ \A m \in hist.finished \cap hist.folded :
               \A k \in 1..Len(archive[m]) :
                   \E i \in 1..Len(pipeline.result) :
                       /\ pipeline.result[i].Time = archive[m][k].Hour
                       /\ pipeline.result[i].Bar.NTrades
                              = Cardinality(TradesIn(m, archive[m][k].Hour))

(***************************************************************************)
(* Claims about the bootstrap.                                             *)
(***************************************************************************)
\* the quantities of the trades of the months' files, in the order in which
\* the run feeds them to the detector
RECURSIVE StreamOf(_)
StreamOf(months) ==
    IF months = <<>> THEN <<>>
    ELSE [i \in 1..Len(archive[Head(months)]) |-> archive[Head(months)][i].Qty]
            \o StreamOf(Tail(months))

\* the bootstrap thresholds of the first bootstrapSampleCount samples
FirstSamplesThresholds ==
    LET sorted == Sort(SubSeq(StreamOf(GenerateMonths), 1, bootstrapSampleCount))
    IN Thresholds(percentile(sorted, P99), percentile(sorted, P999))

\* C31: the bootstrap thresholds are computed once, when the
\* bootstrapSampleCount-th sample arrives, from the first samples in arrival
\* order; from then on the detector stays bootstrapped, without a buffer,
\* and the thresholds do not change.  With a checkpoint and a restart before
\* that sample they are still those of the first samples of the whole
\* stream: a run that has fed that many samples ends bootstrapped.
C31_BootstrapOnce ==
    /\ [](detector.bootstrapped =>
             /\ detector.bootstrapBuffer = <<>>
             /\ detector.bootstrapThresholds = FirstSamplesThresholds)
    /\ [](hist.phase = "done" =>
             (detector.bootstrapped
                  <=> Len(StreamOf(GenerateMonths)) >= bootstrapSampleCount))
    /\ [][(detector.bootstrapped /\ hist'.phase = hist.phase) =>
             /\ detector'.bootstrapped
             /\ detector'.bootstrapThresholds = detector.bootstrapThresholds]_vars

(***************************************************************************)
(* Claims about the thresholds.                                            *)
(***************************************************************************)
\* the n latest dates of a set of dates
RECURSIVE Latest(_, _)
Latest(dates, n) ==
    IF n = 0 \/ dates = {} THEN {}
    ELSE LET last == CHOOSE d \in dates : \A e \in dates : e <= d
         IN {last} \cup Latest(dates \ {last}, n - 1)

\* the samples held for a set of dates, in ascending order
RECURSIVE SortedSamples(_, _)
SortedSamples(rp, dates) ==
    IF dates = {} THEN <<>>
    ELSE LET d == CHOOSE x \in dates : TRUE
         IN Sort(rp.dailySamples[d].samples \o SortedSamples(rp, dates \ {d}))

\* C32: the thresholds of a date are the percentiles of the samples of the
\* last windowDays dates strictly before it for which samples were added
\* (fewer if fewer exist), the date list being sorted; with no such date
\* they are the bootstrap thresholds once bootstrapped and the defaults
\* 5.0 and 20.0 before.
C32_ThresholdsOfWindow ==
    /\ \A i \in 1..(Len(detector.dateOrder) - 1) :
           detector.dateOrder[i] < detector.dateOrder[i + 1]
    /\ \A date \in Dates :
        LET earlier == {d \in DOMAIN detector.dailySamples : d < date}
            window  == Latest(earlier, windowDays)
            sorted  == SortedSamples(detector, window)
            t       == RollingGetThresholds(detector, date)
        IN IF earlier # {}
           THEN t = Thresholds(percentile(sorted, P99), percentile(sorted, P999))
           ELSE IF detector.bootstrapped THEN t = detector.bootstrapThresholds
           ELSE t = [P99 |-> 5000, P999 |-> 20000]

\* samples were added for the dates 2 and 1, in that order and with
\* different values, and the detector is bootstrapped
C32_Witness ==
    /\ detector.dateOrder = <<1, 2>>
    /\ detector.dailySamples[1].samples # detector.dailySamples[2].samples
    /\ detector.bootstrapped
    /\ detector.bootstrapBuffer = <<>>

\* C33: on a sorted, non-empty slice percentile is non-decreasing in p,
\* percentile 0 is the first element and percentile 100 the last, so that
\* percentile 99 <= percentile 99.9; between two ranks the value lies
\* between the two neighbouring elements, in proportion to the rank
\* (percentile([1,2,3,4], 50) = 2.5).  Values are in thousandths.
C33_PercentileMonotone ==
    LET sorted == Sort(detector.bootstrapBuffer)
        n      == Len(sorted)
    IN /\ \A p \in Percents : \A q \in Percents :
              p <= q => percentile(sorted, p) <= percentile(sorted, q)
       /\ percentile(sorted, 0) = 1000 * sorted[1]
       /\ percentile(sorted, 1000) = 1000 * sorted[n]
       /\ percentile(sorted, P99) <= percentile(sorted, P999)
       /\ \A p \in Percents : \A k \in 1..(n - 1) :
              (1000 * (k - 1) <= p * (n - 1) /\ p * (n - 1) <= 1000 * k) =>
                  1000 * (percentile(sorted, p) - 1000 * sorted[k])
                      = (p * (n - 1) - 1000 * (k - 1))
                            * (1000 * sorted[k + 1] - 1000 * sorted[k])
       /\ percentile(<<1, 2, 3, 4>>, 500) = 2500
       /\ percentile(<<1, 2, 3, 4>>, 1000) = 4000
       /\ percentile(<<1, 2, 3, 4>>, 0) = 1000

\* the percentiles 50 and 99.9 of 4, 3, 2, 1 have been taken: 2.5 and 3.997
C33_Witness ==
    /\ detector.bootstrapBuffer = <<4, 3, 2, 1>>
    /\ detector.bootstrapThresholds = Thresholds(2500, 3997)

\* C34: the threshold cache is never stale: after any add_sample and
\* get_thresholds calls, for any dates in any order, the thresholds the
\* detector returns for a date are those the rolling window computes for
\* that date from its current state.
C34_CacheNeverStale ==
    \A date \in Dates :
        DetectorThresholds(detector, date) = RollingGetThresholds(detector, date)

\* the whale flags ProcessTrades gives the trades of a batch, in order
RECURSIVE FlagsOf(_, _)
FlagsOf(d, trades) ==
    IF trades = <<>> THEN <<>>
    ELSE <<Classify(d, TradeDate(Head(trades)), Head(trades).Qty)>>
           \o FlagsOf(DetectorGetThresholds(d, TradeDate(Head(trades))), Tail(trades))

\* C35: the bars do not depend on how the trade stream is cut into
\* batches: ProcessTrades on one batch, and ProcessTrades on the two
\* consecutive parts of any split of it, give every trade the same whale
\* flags and leave the same bars.
C35_BatchingIndependent ==
    \A batch \in Batches : \A k \in 1..(Len(batch) - 1) :
        LET head   == SubSeq(batch, 1, k)
            rest   == SubSeq(batch, k + 1, Len(batch))
            whole  == ProcessTrades(aggregator, detector, batch)
            first  == ProcessTrades(aggregator, detector, head)
            second == ProcessTrades(first.aggregator, first.detector, rest)
        IN /\ FlagsOf(AddSamples(detector, batch), batch)
                = FlagsOf(AddSamples(detector, head), head)
                    \o FlagsOf(AddSamples(first.detector, rest), rest)
           /\ GetAllBars(whole.aggregator) = GetAllBars(second.aggregator)

\* the lines of a file that hold a trade record, in file order
RECURSIVE TradeLines(_, _)
TradeLines(lines, i) ==
    IF i > Len(lines) THEN <<>>
    ELSE (IF lines[i].kind = "trade" THEN <<i>> ELSE <<>>) \o TradeLines(lines, i + 1)

\* the batches handed to the callback, one after the other
RECURSIVE Delivered(_)
Delivered(batches) ==
    IF batches = <<>> THEN <<>> ELSE Head(batches) \o Delivered(Tail(batches))

ParseReturned == dispatcher.pc # "parse"
NoReadFault == (~dispatcher.openFails) /\ dispatcher.failAt = 0

\* C36: when no read fails, the parser hands every trade record of the
\* file to the callback exactly once and in file order, in batches of
\* exactly batchSize trades except possibly a last, non-empty, smaller
\* one, and returns the number of trades handed over; for any file, also
\* one whose last line has no trailing newline.
C36_EveryTradeDeliveredOnce ==
    (ParseReturned /\ NoReadFault) =>
        LET batches == dispatcher.parsed.batches
        IN /\ Delivered(batches) = TradeLines(TheFile, 1)
           /\ \A k \in 1..Len(batches) :
                  /\ Len(batches[k]) > 0
                  /\ Len(batches[k]) <= batchSize
                  /\ k < Len(batches) => Len(batches[k]) = batchSize
           /\ dispatcher.parsed.totalTrades = Len(Delivered(batches))

\* a file with its malformed lines (too few columns, unparseable number)
\* replaced by trade records
Wellformed(lines) ==
    [i \in 1..Len(lines) |->
        IF lines[i].kind \in {"short", "badnum"}
        THEN [lines[i] EXCEPT !.kind = "trade"] ELSE lines[i]]

C38_ReadErrorPropagated ==
    (ParseReturned /\ ~NoReadFault) =>
        /\ dispatcher.parsed.err # "nil"
        /\ dispatcher.pc = "release"

\* C39: in the pipeline every reservation is matched by one release of
\* the same amount: the reserved counter is the month's estimate while the
\* dispatcher has a month in processMonthSequential and 0 otherwise, never
\* negative; it changes only by the estimate, up when a month is taken and
\* down when the month ends (or with the process), whether the parse or
\* the checkpoint succeeded or failed.
C39_ReserveMatchedByRelease ==
    /\ [](/\ reservedBytes >= 0
          /\ reservedBytes = IF dispatcher.job = 0 THEN 0 ELSE EstimateProcessMemory(0))
    /\ [][reservedBytes' # reservedBytes =>
             \/ /\ dispatcher.job = 0 /\ dispatcher'.job # 0
                /\ reservedBytes' = reservedBytes + EstimateProcessMemory(0)
             \/ /\ dispatcher.job # 0 /\ dispatcher'.job = 0
                /\ reservedBytes' = reservedBytes - EstimateProcessMemory(0)
                /\ \/ dispatcher.job \in hist'.finished
                   \/ hist'.faults > hist.faults]_vars

\* a month whose checkpoint write failed has ended and its memory is back
C39_Witness ==
    /\ hist.writeFailed # {}
    /\ hist.writeFailed \subseteq hist.finished
    /\ dispatcher.job = 0
    /\ reservedBytes = 0

\* the completed months state.json on disk lists, in the order of the list
CompletedOnDisk ==
    IF disk.stateJson = <<>> THEN <<>> ELSE disk.stateJson[1].CompletedMonths

\* C40: across a run and all its restarts the completed months in
\* state.json are in chronological order and the list only grows by
\* appending: no month is appended after a later month, also when an
\* earlier month failed in a previous run and is retried.
C40_CompletedChronological ==
    /\ [](\A i \in 1..Len(CompletedOnDisk) : \A j \in 1..Len(CompletedOnDisk) :
              i < j => CompletedOnDisk[i] < CompletedOnDisk[j])
    /\ [][/\ Len(CompletedOnDisk') >= Len(CompletedOnDisk)
          /\ SubSeq(CompletedOnDisk', 1, Len(CompletedOnDisk)) = CompletedOnDisk]_vars

====
